---- MODULE Spec2Model ----
(***************************************************************************)
(* Post lifecycle core of alnah/fla: the status transition table, the     *)
(* role- and approval-gated Post.CanTransitionTo, and the copy-on-write   *)
(* operations Approve, Schedule and Publish, with the structured error    *)
(* chain of package kernel; and the category entity with its paths and    *)
(* the PathService that renders and parses category URLs.                 *)
(*                                                                         *)
(* Encoding: a Go pointer field (PublishedAt, ApprovedBy, ApprovedAt) is  *)
(* a sequence of length 0 (nil) or 1 (set); an error is the sequence of   *)
(* the kernel.Error values of its Cause chain, outermost first, and the   *)
(* nil error is the empty sequence; a time.Time is an integer; a slug or  *)
(* a URL path is the sequence of its characters.                          *)
(***************************************************************************)
EXTENDS Integers, Sequences, FiniteSets, TLC

VARIABLES sub, post, now, call, ret, err, allowed

vars == <<sub, post, now, call, ret, err, allowed>>

---------------------------------------------------------------------------
(* Bounds of the model *)

MaxTime == 2

UserIDs == {"u1", "u2"}

---------------------------------------------------------------------------
(* kernel: error codes and the Error chain *)

EConflict == "conflict"
EInternal == "internal"
EInvalid == "invalid"
EForbidden == "forbidden"
ENotFound == "not_found"

NoError == <<>>

NilPtr == <<>>

Ptr(v) == <<v>>

KernelError(code, message, operation, cause) ==
    <<[Code |-> code, Message |-> message, Operation |-> operation]>> \o cause

RECURSIVE ErrorCode(_)
ErrorCode(e) ==
    IF e = NoError THEN ""
    ELSE IF Head(e).Code # "" THEN Head(e).Code
    ELSE IF Tail(e) # NoError THEN ErrorCode(Tail(e))
    ELSE EInternal

---------------------------------------------------------------------------
(* user: roles and the PostPermissionChecker capability set *)

RoleAdmin == "admin"
RoleEditor == "editor"
RoleAuthor == "author"

Roles == {RoleAdmin, RoleEditor, RoleAuthor}

Actors == [id : UserIDs, roles : SUBSET Roles]

HasRole(u, role) == role \in u.roles

HasAnyRole(u, roles) == \E r \in roles : HasRole(u, r)

GetID(u) == u.id

---------------------------------------------------------------------------
(* post: Status and the transition table *)

StatusDraft == "draft"
StatusPublished == "published"
StatusArchived == "archived"
StatusScheduled == "scheduled"

StatusUnknown == "unknown"

Statuses == {StatusDraft, StatusPublished, StatusArchived, StatusScheduled}

StatusValues == Statuses \cup {StatusUnknown}

\* Variant: the table also lets an archived post go back to draft.
allowedTransitions_ArchivedToDraft ==
    [s \in Statuses |->
        CASE s = StatusDraft -> <<StatusPublished, StatusScheduled>>
          [] s = StatusPublished -> <<StatusDraft, StatusArchived>>
          [] s = StatusScheduled -> <<StatusDraft, StatusPublished>>
          [] s = StatusArchived -> <<StatusPublished, StatusDraft>>]

allowedTransitions ==
    [s \in Statuses |->
        CASE s = StatusDraft -> <<StatusPublished, StatusScheduled>>
          [] s = StatusPublished -> <<StatusDraft, StatusArchived>>
          [] s = StatusScheduled -> <<StatusDraft, StatusPublished>>
          [] s = StatusArchived -> <<StatusPublished>>]

Contains(seq, v) == \E i \in 1..Len(seq) : seq[i] = v

\* Variant: no same-status shortcut, the table alone decides.
StatusCanTransitionTo_NoSelf(s, target) ==
    IF s \notin DOMAIN allowedTransitions THEN FALSE
    ELSE Contains(allowedTransitions[s], target)

StatusCanTransitionTo(s, target) ==
    IF s = target THEN TRUE
    ELSE IF s \notin DOMAIN allowedTransitions THEN FALSE
    ELSE Contains(allowedTransitions[s], target)

---------------------------------------------------------------------------
(* post: the Post entity *)

MPostInvalidStatusTransition(from, to) ==
    <<"Invalid status transition from", from, "to", to>>

MPostCannotPublish == <<"User cannot publish this post.">>
MPostCannotApprove == <<"User cannot approve this post.">>
MPostCannotSchedule == <<"User cannot schedule this post.">>
MPostScheduledDatePast == <<"Scheduled date must be in the future.">>

\* Variant: one approval field is enough.
IsApproved_Either(p) == p.ApprovedBy # NilPtr \/ p.ApprovedAt # NilPtr

IsApproved(p) == p.ApprovedBy # NilPtr /\ p.ApprovedAt # NilPtr

After(t, u) == t > u

\* Variant: every transition to draft needs Admin or Editor.
PostCanTransitionTo_DraftAlwaysGated(p, newStatus, u) ==
    IF ~StatusCanTransitionTo(p.Status, newStatus)
    THEN KernelError(EInvalid, MPostInvalidStatusTransition(p.Status, newStatus),
                     "Post.CanTransitionTo", NoError)
    ELSE CASE newStatus = StatusPublished ->
                IF ~IsApproved(p)
                THEN KernelError(EInvalid, MPostCannotPublish,
                                 "Post.CanTransitionTo", NoError)
                ELSE IF ~HasAnyRole(u, {RoleAdmin, RoleEditor})
                THEN KernelError(EForbidden, MPostCannotPublish,
                                 "Post.CanTransitionTo", NoError)
                ELSE NoError
           [] newStatus \in {StatusScheduled, StatusArchived, StatusDraft} ->
                IF ~HasAnyRole(u, {RoleAdmin, RoleEditor})
                THEN KernelError(EForbidden, MPostCannotSchedule,
                                 "Post.CanTransitionTo", NoError)
                ELSE NoError
           [] OTHER -> NoError

\* Variant: publishing asks for the role only, not for the approval.
PostCanTransitionTo_NoApprovalGate(p, newStatus, u) ==
    IF ~StatusCanTransitionTo(p.Status, newStatus)
    THEN KernelError(EInvalid, MPostInvalidStatusTransition(p.Status, newStatus),
                     "Post.CanTransitionTo", NoError)
    ELSE CASE newStatus = StatusPublished ->
                IF ~HasAnyRole(u, {RoleAdmin, RoleEditor})
                THEN KernelError(EForbidden, MPostCannotPublish,
                                 "Post.CanTransitionTo", NoError)
                ELSE NoError
           [] newStatus = StatusScheduled ->
                IF ~HasAnyRole(u, {RoleAdmin, RoleEditor})
                THEN KernelError(EForbidden, MPostCannotSchedule,
                                 "Post.CanTransitionTo", NoError)
                ELSE NoError
           [] newStatus = StatusArchived ->
                IF ~HasAnyRole(u, {RoleAdmin, RoleEditor})
                THEN KernelError(EForbidden,
                                 MPostInvalidStatusTransition(p.Status, newStatus),
                                 "Post.CanTransitionTo", NoError)
                ELSE NoError
           [] newStatus = StatusDraft ->
                IF p.Status = StatusPublished /\ ~HasAnyRole(u, {RoleAdmin, RoleEditor})
                THEN KernelError(EForbidden,
                                 MPostInvalidStatusTransition(p.Status, newStatus),
                                 "Post.CanTransitionTo", NoError)
                ELSE NoError
           [] OTHER -> NoError

PostCanTransitionTo(p, newStatus, u) ==
    IF ~StatusCanTransitionTo(p.Status, newStatus)
    THEN KernelError(EInvalid, MPostInvalidStatusTransition(p.Status, newStatus),
                     "Post.CanTransitionTo", NoError)
    ELSE CASE newStatus = StatusPublished ->
                IF ~IsApproved(p)
                THEN KernelError(EInvalid, MPostCannotPublish,
                                 "Post.CanTransitionTo", NoError)
                ELSE IF ~HasAnyRole(u, {RoleAdmin, RoleEditor})
                THEN KernelError(EForbidden, MPostCannotPublish,
                                 "Post.CanTransitionTo", NoError)
                ELSE NoError
           [] newStatus = StatusScheduled ->
                IF ~HasAnyRole(u, {RoleAdmin, RoleEditor})
                THEN KernelError(EForbidden, MPostCannotSchedule,
                                 "Post.CanTransitionTo", NoError)
                ELSE NoError
           [] newStatus = StatusArchived ->
                IF ~HasAnyRole(u, {RoleAdmin, RoleEditor})
                THEN KernelError(EForbidden,
                                 MPostInvalidStatusTransition(p.Status, newStatus),
                                 "Post.CanTransitionTo", NoError)
                ELSE NoError
           [] newStatus = StatusDraft ->
                IF p.Status = StatusPublished /\ ~HasAnyRole(u, {RoleAdmin, RoleEditor})
                THEN KernelError(EForbidden,
                                 MPostInvalidStatusTransition(p.Status, newStatus),
                                 "Post.CanTransitionTo", NoError)
                ELSE NoError
           [] OTHER -> NoError

\* Variant: an Admin cannot approve their own post either.
PostApprove_NoAdminExemption(p, approver, clk) ==
    IF ~HasAnyRole(approver, {RoleAdmin, RoleEditor}) \/ p.Owner = GetID(approver)
    THEN [post |-> p,
          err |-> KernelError(EForbidden, MPostCannotApprove, "Post.Approve", NoError)]
    ELSE [post |-> [p EXCEPT !.ApprovedBy = Ptr(GetID(approver)),
                             !.ApprovedAt = Ptr(clk),
                             !.UpdatedAt = clk],
          err |-> NoError]

\* Variant: approval does not stamp UpdatedAt.
PostApprove_StaleUpdatedAt(p, approver, clk) ==
    IF ~HasAnyRole(approver, {RoleAdmin, RoleEditor})
    THEN [post |-> p,
          err |-> KernelError(EForbidden, MPostCannotApprove, "Post.Approve", NoError)]
    ELSE IF p.Owner = GetID(approver) /\ ~HasRole(approver, RoleAdmin)
    THEN [post |-> p,
          err |-> KernelError(EForbidden, MPostCannotApprove, "Post.Approve", NoError)]
    ELSE [post |-> [p EXCEPT !.ApprovedBy = Ptr(GetID(approver)),
                             !.ApprovedAt = Ptr(clk)],
          err |-> NoError]

\* Variant: approval records the approver but not the time.
PostApprove_OnlyApprovedBy(p, approver, clk) ==
    IF ~HasAnyRole(approver, {RoleAdmin, RoleEditor})
    THEN [post |-> p,
          err |-> KernelError(EForbidden, MPostCannotApprove, "Post.Approve", NoError)]
    ELSE IF p.Owner = GetID(approver) /\ ~HasRole(approver, RoleAdmin)
    THEN [post |-> p,
          err |-> KernelError(EForbidden, MPostCannotApprove, "Post.Approve", NoError)]
    ELSE [post |-> [p EXCEPT !.ApprovedBy = Ptr(GetID(approver)),
                             !.UpdatedAt = clk],
          err |-> NoError]

\* Approve, Schedule and Publish return the pair (Post, error) of the Go
\* method; clk is the value returned by p.Clock.Now().
PostApprove(p, approver, clk) ==
    IF ~HasAnyRole(approver, {RoleAdmin, RoleEditor})
    THEN [post |-> p,
          err |-> KernelError(EForbidden, MPostCannotApprove, "Post.Approve", NoError)]
    ELSE IF p.Owner = GetID(approver) /\ ~HasRole(approver, RoleAdmin)
    THEN [post |-> p,
          err |-> KernelError(EForbidden, MPostCannotApprove, "Post.Approve", NoError)]
    ELSE [post |-> [p EXCEPT !.ApprovedBy = Ptr(GetID(approver)),
                             !.ApprovedAt = Ptr(clk),
                             !.UpdatedAt = clk],
          err |-> NoError]

\* Variant: the present time is accepted as a publish time.
PostSchedule_AcceptsPresent(p, publishAt, u, clk1, clk2) ==
    LET e == PostCanTransitionTo(p, StatusScheduled, u) IN
    IF e # NoError
    THEN [post |-> p, err |-> KernelError("", <<>>, "Post.Schedule", e)]
    ELSE IF After(clk1, publishAt)
    THEN [post |-> p,
          err |-> KernelError(EInvalid, MPostScheduledDatePast, "Post.Schedule", NoError)]
    ELSE [post |-> [p EXCEPT !.Status = StatusScheduled,
                             !.PublishedAt = Ptr(publishAt),
                             !.UpdatedAt = clk2],
          err |-> NoError]

\* Variant: PublishedAt is stamped with the clock, not the supplied time.
PostSchedule_StampsNow(p, publishAt, u, clk1, clk2) ==
    LET e == PostCanTransitionTo(p, StatusScheduled, u) IN
    IF e # NoError
    THEN [post |-> p, err |-> KernelError("", <<>>, "Post.Schedule", e)]
    ELSE IF ~After(publishAt, clk1)
    THEN [post |-> p,
          err |-> KernelError(EInvalid, MPostScheduledDatePast, "Post.Schedule", NoError)]
    ELSE [post |-> [p EXCEPT !.Status = StatusScheduled,
                             !.PublishedAt = Ptr(clk2),
                             !.UpdatedAt = clk2],
          err |-> NoError]

\* Variant: the status is set before the date is checked, and the half-updated
\* post is returned with the error.
PostSchedule_PartialMutation(p, publishAt, u, clk1, clk2) ==
    LET e == PostCanTransitionTo(p, StatusScheduled, u) IN
    IF e # NoError
    THEN [post |-> p, err |-> KernelError("", <<>>, "Post.Schedule", e)]
    ELSE IF ~After(publishAt, clk1)
    THEN [post |-> [p EXCEPT !.Status = StatusScheduled],
          err |-> KernelError(EInvalid, MPostScheduledDatePast, "Post.Schedule", NoError)]
    ELSE [post |-> [p EXCEPT !.Status = StatusScheduled,
                             !.PublishedAt = Ptr(publishAt),
                             !.UpdatedAt = clk2],
          err |-> NoError]

\* Schedule reads the clock twice: clk1 for the future-date check, clk2 for
\* the UpdatedAt stamp.
PostSchedule(p, publishAt, u, clk1, clk2) ==
    LET e == PostCanTransitionTo(p, StatusScheduled, u) IN
    IF e # NoError
    THEN [post |-> p, err |-> KernelError("", <<>>, "Post.Schedule", e)]
    ELSE IF ~After(publishAt, clk1)
    THEN [post |-> p,
          err |-> KernelError(EInvalid, MPostScheduledDatePast, "Post.Schedule", NoError)]
    ELSE [post |-> [p EXCEPT !.Status = StatusScheduled,
                             !.PublishedAt = Ptr(publishAt),
                             !.UpdatedAt = clk2],
          err |-> NoError]

\* Variant: publishing keeps the old PublishedAt.
PostPublish_KeepsPublishedAt(p, u, clk) ==
    LET e == PostCanTransitionTo(p, StatusPublished, u) IN
    IF e # NoError
    THEN [post |-> p, err |-> KernelError("", <<>>, "Post.Publish", e)]
    ELSE [post |-> [p EXCEPT !.Status = StatusPublished,
                             !.UpdatedAt = clk],
          err |-> NoError]

\* Variant: publishing an already published post returns it untouched.
PostPublish_NoOpWhenPublished(p, u, clk) ==
    LET e == PostCanTransitionTo(p, StatusPublished, u) IN
    IF e # NoError
    THEN [post |-> p, err |-> KernelError("", <<>>, "Post.Publish", e)]
    ELSE IF p.Status = StatusPublished
    THEN [post |-> p, err |-> NoError]
    ELSE [post |-> [p EXCEPT !.Status = StatusPublished,
                             !.PublishedAt = Ptr(clk),
                             !.UpdatedAt = clk],
          err |-> NoError]

\* Variant: publishing withdraws the approval.
PostPublish_ClearsApproval(p, u, clk) ==
    LET e == PostCanTransitionTo(p, StatusPublished, u) IN
    IF e # NoError
    THEN [post |-> p, err |-> KernelError("", <<>>, "Post.Publish", e)]
    ELSE [post |-> [p EXCEPT !.Status = StatusPublished,
                             !.PublishedAt = Ptr(clk),
                             !.UpdatedAt = clk,
                             !.ApprovedBy = NilPtr,
                             !.ApprovedAt = NilPtr],
          err |-> NoError]

PostPublish(p, u, clk) ==
    LET e == PostCanTransitionTo(p, StatusPublished, u) IN
    IF e # NoError
    THEN [post |-> p, err |-> KernelError("", <<>>, "Post.Publish", e)]
    ELSE [post |-> [p EXCEPT !.Status = StatusPublished,
                             !.PublishedAt = Ptr(clk),
                             !.UpdatedAt = clk],
          err |-> NoError]

---------------------------------------------------------------------------
(* post: validation, construction and the readiness check *)

\* The titles of the model, with their length in runes. The value objects of
\* a Post that are not listed in the Post record (Content, Slug, Category,
\* the SEO fields, ...) hold valid values throughout.
TitleGood == "Test Post Title Example"
TitleNoSlug == "!!!!!!!!!!"
TitleShort == "short"

Titles == {TitleGood, TitleNoSlug, TitleShort, ""}

\* Category names of the model: two that yield a slug, one made of
\* punctuation only, and the empty name.
NameSports == "Sports"
NameA1 == "A1"
NameNoSlug == "!!!"

CategoryNames == {NameSports, NameA1, NameNoSlug, ""}

RuneCount(t) ==
    CASE t = TitleGood -> 23
      [] t = TitleNoSlug -> 10
      [] t = TitleShort -> 5
      [] t = NameSports -> 6
      [] t = NameA1 -> 2
      [] t = NameNoSlug -> 3
      [] OTHER -> 0

MinTitleLength == 10
MaxTitleLength == 100

MSlugGeneration == <<"Slug could not be generated.">>
MStatusInvalid == <<"Invalid status.">>
MPostScheduledDateRequired == <<"Scheduled date is required for scheduled posts.">>

ErrMissing(field) == <<"Missing", field>>

ErrLen(field, min, max) ==
    <<field, "must be between", ToString(min), "and", ToString(max), "characters.">>

ValidatePresence(field, value, operation) ==
    IF value = ""
    THEN KernelError(EInvalid, ErrMissing(field), operation, NoError)
    ELSE NoError

ValidateLength(field, value, min, max, operation) ==
    IF RuneCount(value) < min \/ RuneCount(value) > max
    THEN KernelError(EInvalid, ErrLen(field, min, max), operation, NoError)
    ELSE NoError

IDValidate(id) ==
    IF id = ""
    THEN KernelError(EInvalid, ErrMissing("ID"), "ID.Validate", NoError)
    ELSE NoError

TitleValidate(t) ==
    LET e == ValidatePresence("title", t, "Title.Validate") IN
    IF e # NoError THEN e
    ELSE ValidateLength("title", t, MinTitleLength, MaxTitleLength, "Title.Validate")

StatusValidate(s) ==
    IF s \in {StatusDraft, StatusPublished, StatusArchived, StatusScheduled}
    THEN NoError
    ELSE KernelError(EInvalid, MStatusInvalid, "Status.Validate", NoError)

---------------------------------------------------------------------------
(* shared: slugs.  A string is the sequence of its runes.                 *)

MSlugInvalidChars == <<"Slug contains invalid characters.">>

MaxSlugLength == MaxTitleLength + 10

ErrLt(field, max) == <<field, "must be less than", ToString(max), "characters.">>

IsSpace(r) == r \in {" ", "\t", "\n", "\r"}

\* The least and the greatest element of a non-empty set of integers.
Least(S) == CHOOSE i \in S : \A j \in S : i <= j

Greatest(S) == CHOOSE i \in S : \A j \in S : i >= j

\* strings.TrimSpace: what lies between the first and the last rune that is
\* not white space.
TrimSpace(s) ==
    LET inked == {i \in 1..Len(s) : ~IsSpace(s[i])} IN
    IF inked = {} THEN <<>> ELSE SubSeq(s, Least(inked), Greatest(inked))

\* The characters [a-z0-9] of slugFormatRe and nonAlphaRe.
SlugAlnum ==
    {"a", "b", "c", "d", "e", "f", "g", "h", "i", "j", "k", "l", "m",
     "n", "o", "p", "q", "r", "s", "t", "u", "v", "w", "x", "y", "z",
     "0", "1", "2", "3", "4", "5", "6", "7", "8", "9"}

\* slugFormatRe: ^[a-z0-9]+(?:-[a-z0-9]+)*$
MatchesSlugFormat(s) ==
    /\ Len(s) > 0
    /\ \A i \in 1..Len(s) : s[i] \in SlugAlnum \/ s[i] = "-"
    /\ s[1] # "-" /\ s[Len(s)] # "-"
    /\ \A i \in 1..(Len(s) - 1) : ~(s[i] = "-" /\ s[i + 1] = "-")

validateSlugFormat(s) ==
    IF ~MatchesSlugFormat(s)
    THEN KernelError(EInvalid, MSlugInvalidChars, "Slug.validateSlugFormat", NoError)
    ELSE NoError

SlugValidate(s) ==
    IF TrimSpace(s) = <<>>
    THEN KernelError("", <<>>, "Slug.Validate",
             KernelError(EInvalid, ErrMissing("slug"), "Slug.Validate", NoError))
    ELSE IF Len(s) > MaxSlugLength
    THEN KernelError("", <<>>, "Slug.Validate",
             KernelError(EInvalid, ErrLt("slug", MaxSlugLength), "Slug.Validate", NoError))
    ELSE LET e == validateSlugFormat(s) IN
         IF e # NoError THEN KernelError("", <<>>, "Slug.Validate", e) ELSE NoError

\* transliterationMap: the replacement of a rune, and the rune itself when the
\* map has none.  A rune outside ASCII is written as its code point.
transliterationMap(r) ==
    CASE r = "U+00C0" -> <<"A">>
      [] r = "U+00E0" -> <<"a">>
      [] r = "U+00C2" -> <<"A">>
      [] r = "U+00E2" -> <<"a">>
      [] r = "U+00C4" -> <<"A">>
      [] r = "U+00E4" -> <<"a">>
      [] r = "U+00C6" -> <<"A", "E">>
      [] r = "U+00E6" -> <<"a", "e">>
      [] r = "U+00C7" -> <<"C">>
      [] r = "U+00E7" -> <<"c">>
      [] r = "U+00C8" -> <<"E">>
      [] r = "U+00E8" -> <<"e">>
      [] r = "U+00C9" -> <<"E">>
      [] r = "U+00E9" -> <<"e">>
      [] r = "U+00CA" -> <<"E">>
      [] r = "U+00EA" -> <<"e">>
      [] r = "U+00CB" -> <<"E">>
      [] r = "U+00EB" -> <<"e">>
      [] r = "U+00CE" -> <<"I">>
      [] r = "U+00EE" -> <<"i">>
      [] r = "U+00CF" -> <<"I">>
      [] r = "U+00EF" -> <<"i">>
      [] r = "U+00D4" -> <<"O">>
      [] r = "U+00F4" -> <<"o">>
      [] r = "U+0152" -> <<"O", "E">>
      [] r = "U+0153" -> <<"o", "e">>
      [] r = "U+00D9" -> <<"U">>
      [] r = "U+00F9" -> <<"u">>
      [] r = "U+00DB" -> <<"U">>
      [] r = "U+00FB" -> <<"u">>
      [] r = "U+00DC" -> <<"U">>
      [] r = "U+00FC" -> <<"u">>
      [] r = "U+0178" -> <<"Y">>
      [] r = "U+00FF" -> <<"y">>
      [] r = "U+00C1" -> <<"A">>
      [] r = "U+00E1" -> <<"a">>
      [] r = "U+00CD" -> <<"I">>
      [] r = "U+00ED" -> <<"i">>
      [] r = "U+00D1" -> <<"N">>
      [] r = "U+00F1" -> <<"n">>
      [] r = "U+00D3" -> <<"O">>
      [] r = "U+00F3" -> <<"o">>
      [] r = "U+00DA" -> <<"U">>
      [] r = "U+00FA" -> <<"u">>
      [] r = "U+00BF" -> <<>>
      [] r = "U+00A1" -> <<>>
      [] r = "U+00C3" -> <<"A">>
      [] r = "U+00E3" -> <<"a">>
      [] r = "U+00D5" -> <<"O">>
      [] r = "U+00F5" -> <<"o">>
      [] r = "U+00D0" -> <<"D">>
      [] r = "U+00F0" -> <<"d">>
      [] r = "U+00DE" -> <<"T", "H">>
      [] r = "U+00FE" -> <<"t", "h">>
      [] r = "U+0141" -> <<"L">>
      [] r = "U+0142" -> <<"l">>
      [] r = "U+0104" -> <<"A">>
      [] r = "U+0105" -> <<"a">>
      [] r = "U+0106" -> <<"C">>
      [] r = "U+0107" -> <<"c">>
      [] r = "U+0118" -> <<"E">>
      [] r = "U+0119" -> <<"e">>
      [] r = "U+0143" -> <<"N">>
      [] r = "U+0144" -> <<"n">>
      [] r = "U+015A" -> <<"S">>
      [] r = "U+015B" -> <<"s">>
      [] r = "U+0179" -> <<"Z">>
      [] r = "U+017A" -> <<"z">>
      [] r = "U+017B" -> <<"Z">>
      [] r = "U+017C" -> <<"z">>
      [] r = "U+00D6" -> <<"O">>
      [] r = "U+00F6" -> <<"o">>
      [] r = "U+00DF" -> <<"s", "s">>
      [] r = "U+00C5" -> <<"A">>
      [] r = "U+00E5" -> <<"a">>
      [] r = "U+00D8" -> <<"O">>
      [] r = "U+00F8" -> <<"o">>
      [] r = "&" -> <<"-">>
      [] r = "@" -> <<"-">>
      [] r = "U+00B0" -> <<"-">>
      [] r = "U+20AC" -> <<>>
      [] r = "U+00A3" -> <<>>
      [] r = "$" -> <<>>
      [] OTHER -> <<r>>

\* unicode.ToLower on the runes of the model: the ASCII capitals and the
\* capitals of Latin-1.
ToLowerRune(r) ==
    CASE r = "A" -> "a"
      [] r = "B" -> "b"
      [] r = "C" -> "c"
      [] r = "D" -> "d"
      [] r = "E" -> "e"
      [] r = "F" -> "f"
      [] r = "G" -> "g"
      [] r = "H" -> "h"
      [] r = "I" -> "i"
      [] r = "J" -> "j"
      [] r = "K" -> "k"
      [] r = "L" -> "l"
      [] r = "M" -> "m"
      [] r = "N" -> "n"
      [] r = "O" -> "o"
      [] r = "P" -> "p"
      [] r = "Q" -> "q"
      [] r = "R" -> "r"
      [] r = "S" -> "s"
      [] r = "T" -> "t"
      [] r = "U" -> "u"
      [] r = "V" -> "v"
      [] r = "W" -> "w"
      [] r = "X" -> "x"
      [] r = "Y" -> "y"
      [] r = "Z" -> "z"
      [] r = "U+00C0" -> "U+00E0"
      [] r = "U+00C1" -> "U+00E1"
      [] r = "U+00C2" -> "U+00E2"
      [] r = "U+00C3" -> "U+00E3"
      [] r = "U+00C4" -> "U+00E4"
      [] r = "U+00C5" -> "U+00E5"
      [] r = "U+00C6" -> "U+00E6"
      [] r = "U+00C7" -> "U+00E7"
      [] r = "U+00C8" -> "U+00E8"
      [] r = "U+00C9" -> "U+00E9"
      [] r = "U+00CA" -> "U+00EA"
      [] r = "U+00CB" -> "U+00EB"
      [] r = "U+00CC" -> "U+00EC"
      [] r = "U+00CD" -> "U+00ED"
      [] r = "U+00CE" -> "U+00EE"
      [] r = "U+00CF" -> "U+00EF"
      [] r = "U+00D0" -> "U+00F0"
      [] r = "U+00D1" -> "U+00F1"
      [] r = "U+00D2" -> "U+00F2"
      [] r = "U+00D3" -> "U+00F3"
      [] r = "U+00D4" -> "U+00F4"
      [] r = "U+00D5" -> "U+00F5"
      [] r = "U+00D6" -> "U+00F6"
      [] r = "U+00D8" -> "U+00F8"
      [] r = "U+00D9" -> "U+00F9"
      [] r = "U+00DA" -> "U+00FA"
      [] r = "U+00DB" -> "U+00FB"
      [] r = "U+00DC" -> "U+00FC"
      [] r = "U+00DD" -> "U+00FD"
      [] r = "U+00DE" -> "U+00FE"
      [] OTHER -> r

\* accentRemover (NFD, removal of the marks of category Mn, NFC) on the runes
\* of the model: the letters of Latin-1 lose their accent, a combining mark
\* disappears, every other rune stays.
accentRemover(r) ==
    CASE r = "U+00C0" -> <<"A">>
      [] r = "U+00C1" -> <<"A">>
      [] r = "U+00C2" -> <<"A">>
      [] r = "U+00C3" -> <<"A">>
      [] r = "U+00C4" -> <<"A">>
      [] r = "U+00C5" -> <<"A">>
      [] r = "U+00C7" -> <<"C">>
      [] r = "U+00C8" -> <<"E">>
      [] r = "U+00C9" -> <<"E">>
      [] r = "U+00CA" -> <<"E">>
      [] r = "U+00CB" -> <<"E">>
      [] r = "U+00CC" -> <<"I">>
      [] r = "U+00CD" -> <<"I">>
      [] r = "U+00CE" -> <<"I">>
      [] r = "U+00CF" -> <<"I">>
      [] r = "U+00D1" -> <<"N">>
      [] r = "U+00D2" -> <<"O">>
      [] r = "U+00D3" -> <<"O">>
      [] r = "U+00D4" -> <<"O">>
      [] r = "U+00D5" -> <<"O">>
      [] r = "U+00D6" -> <<"O">>
      [] r = "U+00D9" -> <<"U">>
      [] r = "U+00DA" -> <<"U">>
      [] r = "U+00DB" -> <<"U">>
      [] r = "U+00DC" -> <<"U">>
      [] r = "U+00DD" -> <<"Y">>
      [] r = "U+00E0" -> <<"a">>
      [] r = "U+00E1" -> <<"a">>
      [] r = "U+00E2" -> <<"a">>
      [] r = "U+00E3" -> <<"a">>
      [] r = "U+00E4" -> <<"a">>
      [] r = "U+00E5" -> <<"a">>
      [] r = "U+00E7" -> <<"c">>
      [] r = "U+00E8" -> <<"e">>
      [] r = "U+00E9" -> <<"e">>
      [] r = "U+00EA" -> <<"e">>
      [] r = "U+00EB" -> <<"e">>
      [] r = "U+00EC" -> <<"i">>
      [] r = "U+00ED" -> <<"i">>
      [] r = "U+00EE" -> <<"i">>
      [] r = "U+00EF" -> <<"i">>
      [] r = "U+00F1" -> <<"n">>
      [] r = "U+00F2" -> <<"o">>
      [] r = "U+00F3" -> <<"o">>
      [] r = "U+00F4" -> <<"o">>
      [] r = "U+00F5" -> <<"o">>
      [] r = "U+00F6" -> <<"o">>
      [] r = "U+00F9" -> <<"u">>
      [] r = "U+00FA" -> <<"u">>
      [] r = "U+00FB" -> <<"u">>
      [] r = "U+00FC" -> <<"u">>
      [] r = "U+00FD" -> <<"y">>
      [] r = "U+00FF" -> <<"y">>
      [] r = "U+0300" -> <<>>
      [] r = "U+0301" -> <<>>
      [] r = "U+0302" -> <<>>
      [] r = "U+0303" -> <<>>
      [] r = "U+0308" -> <<>>
      [] r = "U+0327" -> <<>>
      [] OTHER -> <<r>>

\* The concatenation of the sequences of a sequence, by halves.
RECURSIVE Flatten(_)
Flatten(ss) ==
    IF ss = <<>> THEN <<>>
    ELSE IF Len(ss) = 1 THEN ss[1]
    ELSE LET h == Len(ss) \div 2 IN
         Flatten(SubSeq(ss, 1, h)) \o Flatten(SubSeq(ss, h + 1, Len(ss)))

transliterate(s) == Flatten([i \in 1..Len(s) |-> transliterationMap(s[i])])

ToLower(s) == [i \in 1..Len(s) |-> ToLowerRune(s[i])]

RemoveAccents(s) == Flatten([i \in 1..Len(s) |-> accentRemover(s[i])])

\* nonAlphaRe.ReplaceAllString(s, "-"): every maximal run of runes outside
\* [a-z0-9] becomes one hyphen.
ReplaceNonAlpha(s) ==
    Flatten([i \in 1..Len(s) |->
                IF s[i] \in SlugAlnum THEN <<s[i]>>
                ELSE IF i = 1 \/ s[i - 1] \in SlugAlnum THEN <<"-">>
                ELSE <<>>])

\* strings.TrimLeft and strings.TrimRight for a cutset of one character.
TrimLeft(s, c) ==
    LET others == {i \in 1..Len(s) : s[i] # c} IN
    IF others = {} THEN <<>> ELSE SubSeq(s, Least(others), Len(s))

TrimRight(s, c) ==
    LET others == {i \in 1..Len(s) : s[i] # c} IN
    IF others = {} THEN <<>> ELSE SubSeq(s, 1, Greatest(others))

\* strings.Trim(s, cutset) for a cutset of one character.
Trim(s, c) == TrimRight(TrimLeft(s, c), c)

containsAlphanumeric(s) == \E i \in 1..Len(s) : s[i] \in SlugAlnum

\* The steps of generateSlug between the two emptiness checks.
SlugProcessed(input) ==
    Trim(ReplaceNonAlpha(RemoveAccents(ToLower(transliterate(input)))), "-")

\* transform.String with accentRemover returns no error on any string, so
\* the branch that reports an internal error is never taken.
\* Variant: the ends are not trimmed after the replacement.
generateSlug_NoTrim(input) ==
    LET t == TrimSpace(input) IN
    IF t = <<>>
    THEN [slug |-> <<>>,
          err |-> KernelError(EInvalid, MSlugGeneration, "generateSlug", NoError)]
    ELSE LET s == ReplaceNonAlpha(RemoveAccents(ToLower(transliterate(t)))) IN
         IF s = <<>> \/ ~containsAlphanumeric(s)
         THEN [slug |-> <<>>,
               err |-> KernelError(EInvalid, MSlugGeneration, "generateSlug", NoError)]
         ELSE IF Len(s) > MaxSlugLength
         THEN [slug |-> TrimRight(SubSeq(s, 1, MaxSlugLength), "-"), err |-> NoError]
         ELSE [slug |-> s, err |-> NoError]

\* Variant: a truncated slug keeps a hyphen at its end.
generateSlug_CutOnly(input) ==
    LET t == TrimSpace(input) IN
    IF t = <<>>
    THEN [slug |-> <<>>,
          err |-> KernelError(EInvalid, MSlugGeneration, "generateSlug", NoError)]
    ELSE LET s == SlugProcessed(t) IN
         IF s = <<>> \/ ~containsAlphanumeric(s)
         THEN [slug |-> <<>>,
               err |-> KernelError(EInvalid, MSlugGeneration, "generateSlug", NoError)]
         ELSE IF Len(s) > MaxSlugLength
         THEN [slug |-> SubSeq(s, 1, MaxSlugLength), err |-> NoError]
         ELSE [slug |-> s, err |-> NoError]

generateSlug(input) ==
    LET t == TrimSpace(input) IN
    IF t = <<>>
    THEN [slug |-> <<>>,
          err |-> KernelError(EInvalid, MSlugGeneration, "generateSlug", NoError)]
    ELSE LET s == SlugProcessed(t) IN
         IF s = <<>> \/ ~containsAlphanumeric(s)
         THEN [slug |-> <<>>,
               err |-> KernelError(EInvalid, MSlugGeneration, "generateSlug", NoError)]
         ELSE IF Len(s) > MaxSlugLength
         THEN [slug |-> TrimRight(SubSeq(s, 1, MaxSlugLength), "-"), err |-> NoError]
         ELSE [slug |-> s, err |-> NoError]

\* The runes of the titles and names of the model (Title.String,
\* CategoryName.String).
Runes(t) ==
    CASE t = TitleGood ->
           <<"T", "e", "s", "t", " ", "P", "o", "s", "t", " ",
             "T", "i", "t", "l", "e", " ", "E", "x", "a", "m", "p", "l", "e">>
      [] t = TitleNoSlug -> <<"!", "!", "!", "!", "!", "!", "!", "!", "!", "!">>
      [] t = TitleShort -> <<"s", "h", "o", "r", "t">>
      [] t = NameSports -> <<"S", "p", "o", "r", "t", "s">>
      [] t = NameA1 -> <<"A", "1">>
      [] t = NameNoSlug -> <<"!", "!", "!">>
      [] OTHER -> <<>>

NewSlug(input) ==
    LET g == generateSlug(input) IN
    IF g.err # NoError
    THEN [slug |-> <<>>, err |-> KernelError("", <<>>, "NewSlug", g.err)]
    ELSE LET e == SlugValidate(g.slug) IN
         IF e # NoError
         THEN [slug |-> <<>>, err |-> KernelError("", <<>>, "NewSlug", e)]
         ELSE [slug |-> g.slug, err |-> NoError]

\* NewSlug(title.String()) and NewSlug(name.String()) for the titles and names
\* of the model, each slug computed once.
NewSlugOf == [t \in Titles \cup CategoryNames |-> NewSlug(Runes(t))]

---------------------------------------------------------------------------
(* post: workflow validation and construction                             *)

\* Variant: a scheduled date equal to the current time passes.
validateWorkflowFields_AcceptsPresent(p, clk) ==
    LET e == IF p.ApprovedBy # NilPtr THEN IDValidate(p.ApprovedBy[1]) ELSE NoError IN
    IF e # NoError
    THEN KernelError("", <<>>, "Post.validateWorkflowFields", e)
    ELSE IF p.Status = StatusScheduled
    THEN IF p.PublishedAt = NilPtr
         THEN KernelError(EInvalid, MPostScheduledDateRequired,
                          "Post.validateWorkflowFields", NoError)
         ELSE IF After(clk, p.PublishedAt[1])
         THEN KernelError(EInvalid, MPostScheduledDatePast,
                          "Post.validateWorkflowFields", NoError)
         ELSE NoError
    ELSE NoError

\* clk is the value of p.Clock.Now() read by the scheduled-date check.
validateWorkflowFields(p, clk) ==
    LET e == IF p.ApprovedBy # NilPtr THEN IDValidate(p.ApprovedBy[1]) ELSE NoError IN
    IF e # NoError
    THEN KernelError("", <<>>, "Post.validateWorkflowFields", e)
    ELSE IF p.Status = StatusScheduled
    THEN IF p.PublishedAt = NilPtr
         THEN KernelError(EInvalid, MPostScheduledDateRequired,
                          "Post.validateWorkflowFields", NoError)
         ELSE IF ~After(p.PublishedAt[1], clk)
         THEN KernelError(EInvalid, MPostScheduledDatePast,
                          "Post.validateWorkflowFields", NoError)
         ELSE NoError
    ELSE NoError

RECURSIVE FirstError(_)
FirstError(errs) ==
    IF errs = <<>> THEN NoError
    ELSE IF Head(errs) # NoError THEN Head(errs)
    ELSE FirstError(Tail(errs))

\* Variant: Validate leaves the workflow check out.
PostValidate_SkipsWorkflow(p, clk) ==
    LET e == FirstError(<<IDValidate(p.PostID),
                          IDValidate(p.Owner),
                          TitleValidate(p.Title),
                          StatusValidate(p.Status)>>) IN
    IF e # NoError THEN KernelError("", <<>>, "Post.Validate", e) ELSE NoError

PostValidate(p, clk) ==
    LET e == FirstError(<<IDValidate(p.PostID),
                          IDValidate(p.Owner),
                          TitleValidate(p.Title),
                          StatusValidate(p.Status),
                          validateWorkflowFields(p, clk)>>) IN
    IF e # NoError THEN KernelError("", <<>>, "Post.Validate", e) ELSE NoError

ZeroPost ==
    [PostID |-> "", Owner |-> "", Title |-> "", Status |-> "",
     PublishedAt |-> NilPtr, ApprovedBy |-> NilPtr, ApprovedAt |-> NilPtr,
     CreatedAt |-> 0, UpdatedAt |-> 0]

\* NewPost reads the clock once for the time stamps (clk1) and once more in
\* Validate (clk2).
NewPost(params, clk1, clk2) ==
    LET s == NewSlugOf[params.Title]
        p == [PostID |-> params.PostID,
              Owner |-> params.Owner,
              Title |-> params.Title,
              Status |-> params.Status,
              PublishedAt |-> params.PublishedAt,
              ApprovedBy |-> NilPtr,
              ApprovedAt |-> NilPtr,
              CreatedAt |-> clk1,
              UpdatedAt |-> clk1]
        e == PostValidate(p, clk2) IN
    IF s.err # NoError
    THEN [post |-> ZeroPost, err |-> KernelError("", <<>>, "NewPost", s.err)]
    ELSE IF e # NoError
    THEN [post |-> ZeroPost, err |-> KernelError("", <<>>, "NewPost", e)]
    ELSE [post |-> p, err |-> NoError]

IsScheduled(p) == p.Status = StatusScheduled

\* Variant: a post due exactly now is not ready yet.
IsReadyToPublish_StrictlyPast(p, clk) ==
    IF ~IsScheduled(p) \/ p.PublishedAt = NilPtr
    THEN FALSE
    ELSE After(clk, p.PublishedAt[1])

IsReadyToPublish(p, clk) ==
    IF ~IsScheduled(p) \/ p.PublishedAt = NilPtr
    THEN FALSE
    ELSE ~After(p.PublishedAt[1], clk)

---------------------------------------------------------------------------
(* subscription: the Subscription entity                                  *)

StatusActive == "active"
StatusUnsubscribed == "unsubscribed"
StatusBounced == "bounced"
StatusComplained == "complained"

SubscriptionStatuses ==
    {StatusActive, StatusUnsubscribed, StatusBounced, StatusComplained}

MSubscriptionAlreadyActive == <<"Subscription is already active.">>
MSubscriptionNotActive == <<"Subscription is not active.">>
MSubscriptionNotVoluntary ==
    <<"Cannot resubscribe: subscription was not voluntarily unsubscribed">>
MSubscriptionStatusInvalid == <<"Invalid subscription status.">>
MEmailMissing == <<"Missing email.">>
MEmailFormatInvalid == <<"Invalid email format.">>

\* Email addresses of the model: one that matches the pattern of
\* Email.validateFormat, one that does not, and the empty one.
EmailGood == "reader@example.com"
EmailBad == "not-an-email"

Emails == {EmailGood, EmailBad, ""}

EmailValidate(e) ==
    IF e = ""
    THEN KernelError("", <<>>, "Email.Validate",
             KernelError(EInvalid, MEmailMissing, "Email.validatePresence", NoError))
    ELSE IF e # EmailGood
    THEN KernelError("", <<>>, "Email.Validate",
             KernelError(EInvalid, MEmailFormatInvalid, "Email.validateFormat", NoError))
    ELSE NoError

SubscriptionStatusValidate(s) ==
    IF s \in SubscriptionStatuses
    THEN NoError
    ELSE KernelError(EInvalid, MSubscriptionStatusInvalid, "Status.Validate", NoError)

\* The first name is left out: the subscribers of the model have none, which
\* FirstName.Validate accepts.
SubscriptionValidate(s) ==
    LET e == FirstError(<<IDValidate(s.SubscriptionID),
                          EmailValidate(s.Email),
                          SubscriptionStatusValidate(s.Status)>>) IN
    IF e # NoError THEN KernelError("", <<>>, "Subscription.Validate", e) ELSE NoError

ZeroSubscription ==
    [SubscriptionID |-> "", Email |-> "", Status |-> "", IsActive |-> FALSE,
     SubscribedAt |-> 0, UnsubscribedAt |-> NilPtr, UpdatedAt |-> 0]

NewSubscription(p, clk) ==
    LET subscription == [SubscriptionID |-> p.SubscriptionID,
                         Email |-> p.Email,
                         Status |-> StatusActive,
                         IsActive |-> TRUE,
                         SubscribedAt |-> clk,
                         UnsubscribedAt |-> NilPtr,
                         UpdatedAt |-> clk]
        e == SubscriptionValidate(subscription) IN
    IF e # NoError
    THEN [sub |-> ZeroSubscription, err |-> KernelError("", <<>>, "NewSubscription", e)]
    ELSE [sub |-> subscription, err |-> NoError]

\* Variant: a subscription that is not active is unsubscribed all the same.
Unsubscribe_Always(s, clk) ==
    [sub |-> [s EXCEPT !.Status = StatusUnsubscribed,
                       !.IsActive = FALSE,
                       !.UnsubscribedAt = Ptr(clk),
                       !.UpdatedAt = clk],
     err |-> NoError]

Unsubscribe(s, clk) ==
    IF s.Status # StatusActive
    THEN [sub |-> s,
          err |-> KernelError(EConflict, MSubscriptionNotActive,
                              "Subscription.Unsubscribe", NoError)]
    ELSE [sub |-> [s EXCEPT !.Status = StatusUnsubscribed,
                            !.IsActive = FALSE,
                            !.UnsubscribedAt = Ptr(clk),
                            !.UpdatedAt = clk],
          err |-> NoError]

\* Variant: every subscription that is not active can be resubscribed.
Resubscribe_FromAny(s, clk) ==
    IF s.Status = StatusActive
    THEN [sub |-> s,
          err |-> KernelError(EConflict, MSubscriptionAlreadyActive,
                              "Subscription.Resubscribe", NoError)]
    ELSE [sub |-> [s EXCEPT !.Status = StatusActive,
                            !.IsActive = TRUE,
                            !.UnsubscribedAt = NilPtr,
                            !.UpdatedAt = clk],
          err |-> NoError]

Resubscribe(s, clk) ==
    IF s.Status = StatusActive
    THEN [sub |-> s,
          err |-> KernelError(EConflict, MSubscriptionAlreadyActive,
                              "Subscription.Resubscribe", NoError)]
    ELSE IF s.Status # StatusUnsubscribed
    THEN [sub |-> s,
          err |-> KernelError(EInvalid, MSubscriptionNotVoluntary,
                              "Subscription.Resubscribe", NoError)]
    ELSE [sub |-> [s EXCEPT !.Status = StatusActive,
                            !.IsActive = TRUE,
                            !.UnsubscribedAt = NilPtr,
                            !.UpdatedAt = clk],
          err |-> NoError]

\* Variant: a bounce leaves the flag of active subscriptions alone.
MarkAsBounced_KeepsFlag(s, clk) ==
    [sub |-> [s EXCEPT !.Status = StatusBounced, !.UpdatedAt = clk],
     err |-> NoError]

MarkAsBounced(s, clk) ==
    [sub |-> [s EXCEPT !.Status = StatusBounced,
                       !.IsActive = FALSE,
                       !.UpdatedAt = clk],
     err |-> NoError]

MarkAsComplained(s, clk) ==
    [sub |-> [s EXCEPT !.Status = StatusComplained,
                       !.IsActive = FALSE,
                       !.UpdatedAt = clk],
     err |-> NoError]

IsSubscribed(s) == s.IsActive /\ s.Status = StatusActive

CanReceiveEmails(s) == IsSubscribed(s)

---------------------------------------------------------------------------
(* The state machine: a caller holding one Post value and a clock *)

Times == 0..MaxTime

OptTime(S) == {NilPtr} \cup {Ptr(t) : t \in S}

\* Post values a caller can hold: one of the four statuses, and, the exported
\* fields being assignable, approval fields set independently of each other.
InitPosts ==
    [PostID : {"post-1"},
     Owner : UserIDs,
     Title : {TitleGood},
     Status : Statuses,
     PublishedAt : OptTime({0, 1}),
     ApprovedBy : {NilPtr, Ptr("u2")},
     ApprovedAt : OptTime({0}),
     CreatedAt : {0},
     UpdatedAt : {0}]

NoActor == [id |-> "", roles |-> {}]

NoCall ==
    [op |-> "", p |-> [Status |-> ""], u |-> NoActor, from |-> "", target |-> "",
     publishAt |-> 0, at |-> 0]

Init ==
    /\ sub = ZeroSubscription
    /\ post \in InitPosts
    /\ now = 0
    /\ call = NoCall
    /\ ret = post
    /\ err = NoError
    /\ allowed = FALSE

\* The clock advances between calls. The caller is sequential: call = NoCall
\* while it is between calls, and holds the last call while it looks at the
\* result.
Tick ==
    /\ call = NoCall
    /\ now < MaxTime
    /\ now' = now + 1
    /\ UNCHANGED <<sub, post, call, ret, err, allowed>>

\* Status.CanTransitionTo(target) on a free-standing Status value.
DoStatusCanTransitionTo ==
    \E s \in StatusValues, target \in StatusValues :
        /\ call = NoCall
        /\ allowed' = StatusCanTransitionTo(s, target)
        /\ call' = [NoCall EXCEPT !.op = "Status.CanTransitionTo",
                                  !.from = s, !.target = target]
        /\ UNCHANGED <<sub, post, now, ret, err>>

\* p.CanTransitionTo(newStatus, u)
DoCanTransitionTo ==
    \E u \in Actors, newStatus \in StatusValues :
        /\ call = NoCall
        /\ err' = PostCanTransitionTo(post, newStatus, u)
        /\ call' = [op |-> "Post.CanTransitionTo", p |-> post, u |-> u,
                    from |-> post.Status, target |-> newStatus,
                    publishAt |-> 0, at |-> now]
        /\ UNCHANGED <<sub, post, now, ret, allowed>>

\* p, err = p.Approve(u)
DoApprove ==
    \E u \in Actors :
        LET r == PostApprove(post, u, now) IN
        /\ call = NoCall
        /\ ret' = r.post
        /\ err' = r.err
        /\ post' = r.post
        /\ call' = [op |-> "Post.Approve", p |-> post, u |-> u,
                    from |-> post.Status, target |-> "",
                    publishAt |-> 0, at |-> now]
        /\ UNCHANGED <<sub, now, allowed>>

\* p, err = p.Schedule(publishAt, u); the clock may advance between the two
\* reads of Schedule.
DoSchedule ==
    \E u \in Actors, publishAt \in 0..(MaxTime + 1), clk2 \in now..(now + 1) :
        /\ call = NoCall
        /\ clk2 <= MaxTime
        /\ LET r == PostSchedule(post, publishAt, u, now, clk2) IN
            /\ ret' = r.post
            /\ err' = r.err
            /\ post' = r.post
            /\ now' = IF r.err = NoError THEN clk2 ELSE now
        /\ call' = [op |-> "Post.Schedule", p |-> post, u |-> u,
                    from |-> post.Status, target |-> StatusScheduled,
                    publishAt |-> publishAt, at |-> now]
        /\ UNCHANGED <<sub, allowed>>

\* p, err = p.Publish(u)
DoPublish ==
    \E u \in Actors :
        LET r == PostPublish(post, u, now) IN
        /\ call = NoCall
        /\ ret' = r.post
        /\ err' = r.err
        /\ post' = r.post
        /\ call' = [op |-> "Post.Publish", p |-> post, u |-> u,
                    from |-> post.Status, target |-> StatusPublished,
                    publishAt |-> 0, at |-> now]
        /\ UNCHANGED <<sub, now, allowed>>

NewPostParams ==
    [PostID : {"post-1", ""},
     Owner : UserIDs,
     Title : {TitleGood, TitleNoSlug, TitleShort},
     Status : StatusValues,
     PublishedAt : OptTime(0..(MaxTime + 1))]

\* p, err = NewPost(params); the caller goes on with the returned Post, the
\* zero Post on failure. The clock may advance between the two reads.
DoNewPost ==
    \E params \in NewPostParams, clk2 \in now..(now + 1) :
        /\ call = NoCall
        /\ clk2 <= MaxTime
        /\ LET r == NewPost(params, now, clk2) IN
            /\ ret' = r.post
            /\ err' = r.err
            /\ post' = r.post
        /\ now' = clk2
        /\ call' = [op |-> "NewPost", p |-> params, u |-> NoActor,
                    from |-> "", target |-> params.Status,
                    publishAt |-> 0, at |-> now, checkedAt |-> clk2]
        /\ UNCHANGED <<sub, allowed>>

\* err = p.Validate()
DoValidate ==
    /\ call = NoCall
    /\ err' = PostValidate(post, now)
    /\ call' = [op |-> "Post.Validate", p |-> post, u |-> NoActor,
                from |-> post.Status, target |-> "",
                publishAt |-> 0, at |-> now, checkedAt |-> now]
    /\ UNCHANGED <<sub, post, now, ret, allowed>>

\* p.IsReadyToPublish()
DoIsReadyToPublish ==
    /\ call = NoCall
    /\ allowed' = IsReadyToPublish(post, now)
    /\ call' = [op |-> "Post.IsReadyToPublish", p |-> post, u |-> NoActor,
                from |-> post.Status, target |-> "",
                publishAt |-> 0, at |-> now, checkedAt |-> now]
    /\ UNCHANGED <<sub, post, now, ret, err>>

\* The caller has looked at the result and goes on with the Post it holds.
Proceed ==
    /\ call # NoCall
    /\ call' = NoCall
    /\ ret' = post
    /\ err' = NoError
    /\ allowed' = FALSE
    /\ UNCHANGED <<sub, post, now>>

Next ==
    \/ Tick
    \/ Proceed
    \/ DoStatusCanTransitionTo
    \/ DoCanTransitionTo
    \/ DoApprove
    \/ DoSchedule
    \/ DoPublish
    \/ DoValidate
    \/ DoIsReadyToPublish

Spec == Init /\ [][Next]_vars

\* The same caller, holding only Posts that NewPost returned.
InitNew ==
    /\ sub = ZeroSubscription
    /\ post = ZeroPost
    /\ now = 0
    /\ call = NoCall
    /\ ret = ZeroPost
    /\ err = NoError
    /\ allowed = FALSE

HasPost == post # ZeroPost

NextNew ==
    \/ DoNewPost
    \/ Tick
    \/ Proceed
    \/ HasPost /\ DoCanTransitionTo
    \/ HasPost /\ DoApprove
    \/ HasPost /\ DoSchedule
    \/ HasPost /\ DoPublish
    \/ HasPost /\ DoValidate
    \/ HasPost /\ DoIsReadyToPublish

SpecNew == InitNew /\ [][NextNew]_vars

---------------------------------------------------------------------------
(* category: the entity                                                   *)

MCategoryCircularReference == <<"Category cannot be its own parent.">>
MinCategoryNameLength == 1
MaxCategoryNameLength == 100
CategoryNameValidate(n) ==
    LET e == ValidatePresence("category name", n, "CategoryName.Validate") IN
    IF e # NoError THEN e
    ELSE ValidateLength("category name", n, MinCategoryNameLength,
                        MaxCategoryNameLength, "CategoryName.Validate")

\* Variant: the hierarchy check only validates the parent identifier.
validateBasicHierarchy_NoSelfCheck(c) ==
    IF c.ParentID # NilPtr
    THEN LET e == IDValidate(c.ParentID[1]) IN
         IF e # NoError
         THEN KernelError("", <<>>, "Category.validateBasicHierarchy", e)
         ELSE NoError
    ELSE NoError

validateBasicHierarchy(c) ==
    IF c.ParentID # NilPtr
    THEN LET e == IDValidate(c.ParentID[1]) IN
         IF e # NoError
         THEN KernelError("", <<>>, "Category.validateBasicHierarchy", e)
         ELSE IF c.ParentID[1] = c.CategoryID
         THEN KernelError(EInvalid, MCategoryCircularReference,
                          "Category.validateBasicHierarchy", NoError)
         ELSE NoError
    ELSE NoError

\* The description is left out: the categories of the model carry the empty
\* description, which Description.Validate accepts.
CategoryValidate(c) ==
    LET e == FirstError(<<IDValidate(c.CategoryID),
                          CategoryNameValidate(c.Name),
                          SlugValidate(c.Slug),
                          IDValidate(c.CreatedBy),
                          validateBasicHierarchy(c)>>) IN
    IF e # NoError THEN KernelError("", <<>>, "Category.Validate", e) ELSE NoError

ZeroCategory ==
    [CategoryID |-> "", Name |-> "", Slug |-> <<>>, ParentID |-> NilPtr,
     CreatedBy |-> "", CreatedAt |-> 0]

NewCategory(params, clk) ==
    LET s == NewSlugOf[params.Name] IN
    IF s.err # NoError
    THEN [category |-> ZeroCategory,
          err |-> KernelError("", <<>>, "NewCategory", s.err)]
    ELSE LET category == [CategoryID |-> params.CategoryID,
                          Name |-> params.Name,
                          Slug |-> s.slug,
                          ParentID |-> params.ParentID,
                          CreatedBy |-> params.CreatedBy,
                          CreatedAt |-> clk]
             e == CategoryValidate(category) IN
         IF e # NoError
         THEN [category |-> ZeroCategory,
               err |-> KernelError("", <<>>, "NewCategory", e)]
         ELSE [category |-> category, err |-> NoError]

---------------------------------------------------------------------------
(* category: paths and the path service                                   *)

MaxCategoryDepth == 3

\* strings.Join(elems, sep) on strings held as character sequences.
RECURSIVE Join(_, _)
Join(elems, sep) ==
    IF elems = <<>> THEN <<>>
    ELSE IF Len(elems) = 1 THEN elems[1]
    ELSE elems[1] \o sep \o Join(Tail(elems), sep)

\* Variant: the slugs are joined leaf first.
PathString_LeafFirst(cp) ==
    IF Len(cp) = 0 THEN <<>>
    ELSE Join([i \in 1..Len(cp) |-> cp[Len(cp) + 1 - i].Slug], <<"/">>)

PathString(cp) ==
    IF Len(cp) = 0 THEN <<>>
    ELSE Join([i \in 1..Len(cp) |-> cp[i].Slug], <<"/">>)

PathDepth(cp) == Len(cp) - 1

\* Variant: one level more than MaxCategoryDepth is still valid.
PathIsValidDepth_OneMore(cp) == PathDepth(cp) <= MaxCategoryDepth

PathIsValidDepth(cp) == PathDepth(cp) <= MaxCategoryDepth - 1

\* An error that is not a *kernel.Error (errors.New, fmt.Errorf): it has no
\* code, no message and no cause, only its text.
PlainError(text) ==
    <<[Code |-> "", Message |-> <<>>, Operation |-> "", Text |-> text]>>

BuildURL(id, repo) ==
    LET calls == <<[method |-> "BuildPath", id |-> id]>> IN
    IF repo.err # NoError
    THEN [url |-> <<>>, err |-> repo.err, calls |-> calls]
    ELSE [url |-> PathString(repo.path), err |-> NoError, calls |-> calls]

\* The Go loop index is i - 1 for the i-th element of the sequence.
\* Variant: levels are counted from one.
GetBreadcrumbs_LevelFromOne(id, repo) ==
    LET calls == <<[method |-> "BuildPath", id |-> id]>> IN
    IF repo.err # NoError
    THEN [breadcrumbs |-> <<>>, err |-> repo.err, calls |-> calls]
    ELSE [breadcrumbs |->
              [i \in 1..Len(repo.path) |->
                  [Category |-> repo.path[i],
                   IsLast |-> (i - 1 = Len(repo.path) - 1),
                   Level |-> i]],
          err |-> NoError, calls |-> calls]

GetBreadcrumbs(id, repo) ==
    LET calls == <<[method |-> "BuildPath", id |-> id]>> IN
    IF repo.err # NoError
    THEN [breadcrumbs |-> <<>>, err |-> repo.err, calls |-> calls]
    ELSE [breadcrumbs |->
              [i \in 1..Len(repo.path) |->
                  [Category |-> repo.path[i],
                   IsLast |-> (i - 1 = Len(repo.path) - 1),
                   Level |-> i - 1]],
          err |-> NoError, calls |-> calls]

\* strings.Split(s, sep) for a separator of one character: the pieces between
\* the separators, empty pieces included.
RECURSIVE Split(_, _)
Split(s, c) ==
    IF \A i \in 1..Len(s) : s[i] # c THEN <<s>>
    ELSE LET k == CHOOSE i \in 1..Len(s) :
                     s[i] = c /\ \A j \in 1..(i - 1) : s[j] # c IN
         <<SubSeq(s, 1, k - 1)>> \o Split(SubSeq(s, k + 1, Len(s)), c)

HexDigits ==
    <<"0", "1", "2", "3", "4", "5", "6", "7", "8", "9",
      "a", "b", "c", "d", "e", "f", "A", "B", "C", "D", "E", "F">>

IsHex(c) == \E i \in 1..Len(HexDigits) : HexDigits[i] = c

Unhex(c) ==
    LET i == CHOOSE k \in 1..Len(HexDigits) : HexDigits[k] = c IN
    IF i <= 16 THEN i - 1 ELSE i - 7

\* The character of a byte value; a byte outside the table stands for
\* itself, written as its number.
CharOf(b) ==
    CASE b = 32 -> " "
      [] b = 34 -> "\""
      [] b = 37 -> "%"
      [] b = 42 -> "*"
      [] b = 43 -> "+"
      [] b = 47 -> "/"
      [] b = 50 -> "2"
      [] b = 70 -> "F"
      [] b = 97 -> "a"
      [] OTHER -> ToString(b)

\* url.QueryUnescape: every "%XY" becomes the byte 0xXY, every "+" becomes a
\* space, and a "%" without two hexadecimal digits after it is an error.
RECURSIVE QueryUnescape(_)
QueryUnescape(s) ==
    IF s = <<>> THEN [s |-> <<>>, ok |-> TRUE]
    ELSE IF Head(s) = "%"
    THEN IF Len(s) < 3 \/ ~IsHex(s[2]) \/ ~IsHex(s[3])
         THEN [s |-> <<>>, ok |-> FALSE]
         ELSE LET r == QueryUnescape(SubSeq(s, 4, Len(s))) IN
              IF r.ok
              THEN [s |-> <<CharOf(16 * Unhex(s[2]) + Unhex(s[3]))>> \o r.s,
                    ok |-> TRUE]
              ELSE r
    ELSE LET r == QueryUnescape(Tail(s)) IN
         IF r.ok
         THEN [s |-> <<IF Head(s) = "+" THEN " " ELSE Head(s)>> \o r.s,
               ok |-> TRUE]
         ELSE r

ParseURL(urlPath, repo) ==
    LET trimmed == Trim(urlPath, "/") IN
    IF trimmed = <<>>
    THEN [category |-> NilPtr,
          err |-> PlainError(<<"empty path not supported">>),
          calls |-> <<>>]
    ELSE LET segments == Split(trimmed, "/")
             decoded == [i \in 1..Len(segments) |-> QueryUnescape(segments[i])]
             bad == {i \in 1..Len(segments) : ~decoded[i].ok} IN
         IF bad # {}
         THEN LET first == CHOOSE i \in bad : \A j \in bad : i <= j IN
              [category |-> NilPtr,
               err |-> PlainError(<<"invalid URL segment:">> \o segments[first]),
               calls |-> <<>>]
         ELSE [category |-> repo.category,
               err |-> repo.err,
               calls |-> <<[method |-> "FindByPath",
                            segments |-> [i \in 1..Len(segments) |-> decoded[i].s]]>>]

---------------------------------------------------------------------------
(* category: the state machine of the entity and of the path service      *)

CategoryIDs == {"c1", "c2"}

OptCategoryID == {NilPtr} \cup {Ptr(id) : id \in CategoryIDs \cup {""}}

NewCategoryParams ==
    [CategoryID : {"c1", ""},
     Name : CategoryNames,
     ParentID : OptCategoryID,
     CreatedBy : {"u1", ""}]

\* Categories as a caller may assemble them without the constructor.
LiteralCategories ==
    [CategoryID : {"c1", ""},
     Name : {NameA1, ""},
     Slug : {<<"a", "1">>, <<"a", "-">>, <<>>},
     ParentID : OptCategoryID,
     CreatedBy : {"u1"},
     CreatedAt : {0}]

DoNewCategory ==
    /\ call = NoCall
    /\ \E params \in NewCategoryParams :
         LET r == NewCategory(params, now) IN
         /\ call' = [op |-> "NewCategory", params |-> params]
         /\ ret' = r.category
         /\ err' = r.err
    /\ UNCHANGED <<sub, post, now, allowed>>

DoCategoryValidate ==
    /\ call = NoCall
    /\ \E c \in LiteralCategories :
         /\ call' = [op |-> "Category.Validate", cat |-> c]
         /\ ret' = c
         /\ err' = CategoryValidate(c)
    /\ UNCHANGED <<sub, post, now, allowed>>

\* Bounds of the category model.
MaxPathLen == 4
MaxUrlLen == 4

\* Categories the repository holds, with valid slugs.
PathCategories ==
    {[CategoryID |-> "c1", Name |-> NameA1, Slug |-> <<"a", "1">>,
      ParentID |-> NilPtr, CreatedBy |-> "u1", CreatedAt |-> 0],
     [CategoryID |-> "c2", Name |-> NameSports, Slug |-> <<"s", "p", "o", "r", "t", "s">>,
      ParentID |-> Ptr("c1"), CreatedBy |-> "u1", CreatedAt |-> 0],
     [CategoryID |-> "c3", Name |-> "C", Slug |-> <<"c">>,
      ParentID |-> Ptr("c2"), CreatedBy |-> "u2", CreatedAt |-> 0]}

Paths == UNION {[1..n -> PathCategories] : n \in 0..MaxPathLen}

\* Errors a repository may return: kernel errors with a code of their own,
\* and one whose code sits on its cause.
RepoErrors ==
    {KernelError(ENotFound, <<"category not found">>, "", NoError),
     KernelError(EInternal, <<"database unavailable">>, "Repository.BuildPath", NoError),
     KernelError("", <<>>, "Repository.BuildPath",
         KernelError(ENotFound, <<"category not found">>, "", NoError))}

\* What Repository.BuildPath may answer: a path, or an error with or
\* without a path next to it.
BuildPathResults ==
    [path : Paths, err : {NoError}]
        \cup [path : {p \in Paths : Len(p) <= 1}, err : RepoErrors]

\* What Repository.FindByPath may answer.
FindByPathResults ==
    [category : {Ptr(c) : c \in PathCategories}, err : {NoError}]
        \cup [category : {NilPtr}, err : RepoErrors]

UrlChars == {"a", "/", "%", "2", "F", "+"}

UrlPaths == UNION {[1..n -> UrlChars] : n \in 0..MaxUrlLen}

DoPathDepth ==
    /\ call = NoCall
    /\ \E cp \in Paths :
         /\ call' = [op |-> "CategoryPath.Depth", path |-> cp]
         /\ ret' = [depth |-> PathDepth(cp)]
    /\ UNCHANGED <<sub, post, now, err, allowed>>

DoPathIsValidDepth ==
    /\ call = NoCall
    /\ \E cp \in Paths :
         /\ call' = [op |-> "CategoryPath.IsValidDepth", path |-> cp]
         /\ allowed' = PathIsValidDepth(cp)
    /\ UNCHANGED <<sub, post, now, ret, err>>

DoBuildURL ==
    /\ call = NoCall
    /\ \E id \in CategoryIDs, repo \in BuildPathResults :
         LET r == BuildURL(id, repo) IN
         /\ call' = [op |-> "PathService.BuildURL", id |-> id, repo |-> repo]
         /\ ret' = [url |-> r.url, calls |-> r.calls]
         /\ err' = r.err
    /\ UNCHANGED <<sub, post, now, allowed>>

DoGetBreadcrumbs ==
    /\ call = NoCall
    /\ \E id \in CategoryIDs, repo \in BuildPathResults :
         LET r == GetBreadcrumbs(id, repo) IN
         /\ call' = [op |-> "PathService.GetBreadcrumbs", id |-> id, repo |-> repo]
         /\ ret' = [breadcrumbs |-> r.breadcrumbs, calls |-> r.calls]
         /\ err' = r.err
    /\ UNCHANGED <<sub, post, now, allowed>>

DoParseURL ==
    /\ call = NoCall
    /\ \E urlPath \in UrlPaths, repo \in FindByPathResults :
         LET r == ParseURL(urlPath, repo) IN
         /\ call' = [op |-> "PathService.ParseURL", urlPath |-> urlPath, repo |-> repo]
         /\ ret' = [category |-> r.category, calls |-> r.calls]
         /\ err' = r.err
    /\ UNCHANGED <<sub, post, now, allowed>>

InitCat ==
    /\ sub = ZeroSubscription
    /\ post = ZeroPost
    /\ now = 0
    /\ call = NoCall
    /\ ret = ZeroPost
    /\ err = NoError
    /\ allowed = FALSE

NextCat ==
    \/ Tick
    \/ Proceed
    \/ DoNewCategory
    \/ DoCategoryValidate
    \/ DoPathDepth
    \/ DoPathIsValidDepth
    \/ DoBuildURL
    \/ DoGetBreadcrumbs
    \/ DoParseURL

SpecCat == InitCat /\ [][NextCat]_vars

---------------------------------------------------------------------------
(* kernel: resolution of code and message along the cause chain           *)

MInternal ==
    <<"An internal error has occurred. Please contact technical support.">>

\* Whether the element of a chain is a *kernel.Error; the other elements
\* are errors of another type, which end the chain.
IsKernelError(x) == "Text" \notin DOMAIN x

\* Variant: only the outermost error is asked for its message.
ErrorMessage_NoWalk(e) ==
    IF e = NoError THEN <<>>
    ELSE IF IsKernelError(Head(e)) /\ Head(e).Message # <<>> THEN Head(e).Message
    ELSE MInternal

RECURSIVE ErrorMessage(_)
ErrorMessage(e) ==
    IF e = NoError THEN <<>>
    ELSE IF IsKernelError(Head(e)) /\ Head(e).Message # <<>> THEN Head(e).Message
    ELSE IF IsKernelError(Head(e)) /\ Tail(e) # NoError THEN ErrorMessage(Tail(e))
    ELSE MInternal

\* &kernel.Error{Operation: operation, Cause: e}
Wrap(operation, e) == KernelError("", <<>>, operation, e)

MaxChainLen == 3

ChainCodes == {"", EInvalid, ENotFound}

ChainMessages == {<<>>, <<"first message">>, <<"second message">>}

ChainErrors == [Code : ChainCodes, Message : ChainMessages, Operation : {"op"}]

\* The errors handed to the kernel: nil, and chains of up to MaxChainLen
\* kernel errors that end with a nil cause or with an error of another type.
Chains ==
    LET kernelChains == UNION {[1..n -> ChainErrors] : n \in 0..MaxChainLen} IN
    kernelChains
        \cup {c \o PlainError(<<"standard error">>) :
                c \in {k \in kernelChains : Len(k) < MaxChainLen}}

DoErrorCode ==
    /\ call = NoCall
    /\ \E e \in Chains :
         /\ call' = [op |-> "ErrorCode", chain |-> e]
         /\ ret' = [code |-> ErrorCode(e)]
    /\ UNCHANGED <<sub, post, now, err, allowed>>

DoErrorMessage ==
    /\ call = NoCall
    /\ \E e \in Chains :
         /\ call' = [op |-> "ErrorMessage", chain |-> e]
         /\ ret' = [message |-> ErrorMessage(e)]
    /\ UNCHANGED <<sub, post, now, err, allowed>>

\* A validator wraps the failure of a sub-validator with its operation and
\* the caller resolves code and message of the result.
DoWrap ==
    /\ call = NoCall
    /\ \E e \in Chains \ {NoError} :
         LET w == Wrap("Outer.Validate", e) IN
         /\ call' = [op |-> "Wrap", chain |-> e]
         /\ ret' = [code |-> ErrorCode(w), message |-> ErrorMessage(w)]
         /\ err' = w
    /\ UNCHANGED <<sub, post, now, allowed>>

InitErr ==
    /\ sub = ZeroSubscription
    /\ post = ZeroPost
    /\ now = 0
    /\ call = NoCall
    /\ ret = ZeroPost
    /\ err = NoError
    /\ allowed = FALSE

NextErr ==
    \/ Proceed
    \/ DoErrorCode
    \/ DoErrorMessage
    \/ DoWrap

SpecErr == InitErr /\ [][NextErr]_vars

---------------------------------------------------------------------------
(* shared: the state machine of slug generation                           *)

MaxInputLen == 3

\* Runes a slug is generated from: letters in both cases, a digit, a space,
\* a hyphen, a letter that loses its accent, one that the map expands, one
\* that the map removes, a combining mark and a rune of another script.
SlugInputRunes ==
    {"a", "B", "1", " ", "-", "U+00EC", "U+00DF", "U+20AC", "U+0301", "U+4E2D"}

ShortInputs == UNION {[1..n -> SlugInputRunes] : n \in 0..MaxInputLen}

\* n times the rune r.
Repeat(r, n) == [i \in 1..n |-> r]

\* Inputs around the length at which a slug is truncated.
LongInputs ==
    {Repeat("a", n) \o t :
        n \in (MaxSlugLength - 2)..MaxSlugLength,
        t \in {x \in ShortInputs : Len(x) <= 2}}

SlugInputs == ShortInputs \cup LongInputs

DoGenerateSlug ==
    /\ call = NoCall
    /\ \E input \in SlugInputs :
         LET g == generateSlug(input) IN
         /\ call' = [op |-> "generateSlug", input |-> input]
         /\ ret' = [slug |-> g.slug]
         /\ err' = g.err
    /\ UNCHANGED <<sub, post, now, allowed>>

DoNewSlug ==
    /\ call = NoCall
    /\ \E input \in SlugInputs :
         LET g == NewSlug(input) IN
         /\ call' = [op |-> "NewSlug", input |-> input]
         /\ ret' = [slug |-> g.slug]
         /\ err' = g.err
    /\ UNCHANGED <<sub, post, now, allowed>>

\* A caller that generates a slug and, when that succeeded, generates a slug
\* from the result.
DoRegenerateSlug ==
    /\ call = NoCall
    /\ \E input \in SlugInputs :
         LET g == generateSlug(input)
             h == generateSlug(g.slug) IN
         /\ g.err = NoError
         /\ call' = [op |-> "generateSlug twice", input |-> input]
         /\ ret' = [slug |-> g.slug, again |-> h.slug]
         /\ err' = h.err
    /\ UNCHANGED <<sub, post, now, allowed>>

InitSlug ==
    /\ sub = ZeroSubscription
    /\ post = ZeroPost
    /\ now = 0
    /\ call = NoCall
    /\ ret = ZeroPost
    /\ err = NoError
    /\ allowed = FALSE

NextSlug ==
    \/ Proceed
    \/ DoGenerateSlug
    \/ DoNewSlug
    \/ DoRegenerateSlug

SpecSlug == InitSlug /\ [][NextSlug]_vars

---------------------------------------------------------------------------
(* subscription: a caller holding one Subscription value and a clock      *)

SubscriptionIDs == {"s1"}

\* Subscriptions as a caller may hold them, assembled field by field: every
\* status, one that is not a status, and flags that need not agree with it.
InitSubscriptions ==
    [SubscriptionID : SubscriptionIDs,
     Email : {EmailGood},
     Status : SubscriptionStatuses \cup {"paused"},
     IsActive : BOOLEAN,
     SubscribedAt : {0},
     UnsubscribedAt : OptTime({0}),
     UpdatedAt : {0}]

NewSubscriptionParams ==
    [SubscriptionID : SubscriptionIDs \cup {""}, Email : Emails]

\* s, err = NewSubscription(params); the caller goes on with the returned
\* Subscription, the zero Subscription on failure.
DoNewSubscription ==
    /\ call = NoCall
    /\ \E params \in NewSubscriptionParams :
         LET r == NewSubscription(params, now) IN
         /\ call' = [op |-> "NewSubscription", params |-> params, at |-> now]
         /\ sub' = r.sub
         /\ ret' = r.sub
         /\ err' = r.err
    /\ UNCHANGED <<post, now, allowed>>

\* s, err = s.Unsubscribe()
DoUnsubscribe ==
    /\ call = NoCall
    /\ LET r == Unsubscribe(sub, now) IN
         /\ call' = [op |-> "Subscription.Unsubscribe", s |-> sub, at |-> now]
         /\ sub' = r.sub
         /\ ret' = r.sub
         /\ err' = r.err
    /\ UNCHANGED <<post, now, allowed>>

\* s, err = s.Resubscribe()
DoResubscribe ==
    /\ call = NoCall
    /\ LET r == Resubscribe(sub, now) IN
         /\ call' = [op |-> "Subscription.Resubscribe", s |-> sub, at |-> now]
         /\ sub' = r.sub
         /\ ret' = r.sub
         /\ err' = r.err
    /\ UNCHANGED <<post, now, allowed>>

\* s, err = s.MarkAsBounced()
DoMarkAsBounced ==
    /\ call = NoCall
    /\ LET r == MarkAsBounced(sub, now) IN
         /\ call' = [op |-> "Subscription.MarkAsBounced", s |-> sub, at |-> now]
         /\ sub' = r.sub
         /\ ret' = r.sub
         /\ err' = r.err
    /\ UNCHANGED <<post, now, allowed>>

\* s, err = s.MarkAsComplained()
DoMarkAsComplained ==
    /\ call = NoCall
    /\ LET r == MarkAsComplained(sub, now) IN
         /\ call' = [op |-> "Subscription.MarkAsComplained", s |-> sub, at |-> now]
         /\ sub' = r.sub
         /\ ret' = r.sub
         /\ err' = r.err
    /\ UNCHANGED <<post, now, allowed>>

\* s.IsSubscribed()
DoIsSubscribed ==
    /\ call = NoCall
    /\ call' = [op |-> "Subscription.IsSubscribed", s |-> sub, at |-> now]
    /\ allowed' = IsSubscribed(sub)
    /\ UNCHANGED <<sub, post, now, ret, err>>

\* s.CanReceiveEmails()
DoCanReceiveEmails ==
    /\ call = NoCall
    /\ call' = [op |-> "Subscription.CanReceiveEmails", s |-> sub, at |-> now]
    /\ allowed' = CanReceiveEmails(sub)
    /\ UNCHANGED <<sub, post, now, ret, err>>

\* The subscriptions a caller may hold, whatever their origin.
InitSubAny ==
    /\ sub \in InitSubscriptions
    /\ post = ZeroPost
    /\ now = 0
    /\ call = NoCall
    /\ ret = ZeroPost
    /\ err = NoError
    /\ allowed = FALSE

NextSubAny ==
    \/ Tick
    \/ Proceed
    \/ DoUnsubscribe
    \/ DoResubscribe
    \/ DoMarkAsBounced
    \/ DoMarkAsComplained
    \/ DoIsSubscribed
    \/ DoCanReceiveEmails

SpecSubAny == InitSubAny /\ [][NextSubAny]_vars

\* The subscriptions that come from NewSubscription.
InitSub ==
    /\ sub = ZeroSubscription
    /\ post = ZeroPost
    /\ now = 0
    /\ call = NoCall
    /\ ret = ZeroPost
    /\ err = NoError
    /\ allowed = FALSE

HasSubscription == sub # ZeroSubscription

NextSub ==
    \/ Tick
    \/ Proceed
    \/ DoNewSubscription
    \/ HasSubscription /\ DoUnsubscribe
    \/ HasSubscription /\ DoResubscribe
    \/ HasSubscription /\ DoMarkAsBounced
    \/ HasSubscription /\ DoMarkAsComplained
    \/ HasSubscription /\ DoIsSubscribed
    \/ HasSubscription /\ DoCanReceiveEmails

SpecSub == InitSub /\ [][NextSub]_vars

---------------------------------------------------------------------------
(* post: the life of a post that NewPost created as a draft               *)

\* The posts NewPost returns for Status draft.
DraftPosts ==
    {NewPost(q, 0, 0).post :
        q \in {x \in NewPostParams :
                  x.Status = StatusDraft /\ NewPost(x, 0, 0).err = NoError}}

InitDraft ==
    /\ sub = ZeroSubscription
    /\ post \in DraftPosts
    /\ now = 0
    /\ call = NoCall
    /\ ret = post
    /\ err = NoError
    /\ allowed = FALSE

NextDraft ==
    \/ Tick
    \/ Proceed
    \/ DoApprove
    \/ DoSchedule
    \/ DoPublish

SpecDraft == InitDraft /\ [][NextDraft]_vars

---------------------------------------------------------------------------
(* post: validation and readiness of one Post at one clock reading *)

\* Post values written as literals, the way the tests of Validate build them:
\* any exported field may hold a zero value, an ID or an approver ID among
\* them.
LiteralPosts ==
    [PostID : {"post-1", ""},
     Owner : UserIDs,
     Title : {TitleGood},
     Status : Statuses,
     PublishedAt : OptTime({0, 1}),
     ApprovedBy : {NilPtr, Ptr("u2"), Ptr("")},
     ApprovedAt : OptTime({0}),
     CreatedAt : {0},
     UpdatedAt : {0}]

\* p.Validate() and p.IsReadyToPublish() on the same Post, the clock standing
\* still between the two calls.
DoValidateAndIsReadyToPublish ==
    /\ call = NoCall
    /\ err' = PostValidate(post, now)
    /\ allowed' = IsReadyToPublish(post, now)
    /\ call' = [op |-> "Post.Validate, Post.IsReadyToPublish", p |-> post,
                u |-> NoActor, from |-> post.Status, target |-> "",
                publishAt |-> 0, at |-> now, checkedAt |-> now]
    /\ UNCHANGED <<sub, post, now, ret>>

InitLit ==
    /\ sub = ZeroSubscription
    /\ post \in LiteralPosts
    /\ now = 0
    /\ call = NoCall
    /\ ret = post
    /\ err = NoError
    /\ allowed = FALSE

NextLit ==
    \/ Tick
    \/ Proceed
    \/ DoValidate
    \/ DoIsReadyToPublish
    \/ DoValidateAndIsReadyToPublish

SpecLit == InitLit /\ [][NextLit]_vars

---------------------------------------------------------------------------
(* user: the permission checks of User on a post *)

\* PostInterface, as Post implements it.
GetOwner(p) == p.Owner

GetStatus(p) == p.Status

CanEditPost(u, p) ==
    IF HasAnyRole(u, {RoleAdmin, RoleEditor})
    THEN TRUE
    ELSE GetOwner(p) = u.id /\ HasRole(u, RoleAuthor)

CanPublishPost(u, p) ==
    IF HasAnyRole(u, {RoleAdmin, RoleEditor})
    THEN TRUE
    ELSE GetOwner(p) = u.id /\ HasRole(u, RoleAuthor)

CanSchedulePost(u, p) == CanPublishPost(u, p)

\* Variant: only an Admin may archive.
CanArchivePost_AdminOnly(u, p) == HasRole(u, RoleAdmin)

CanArchivePost(u, p) == HasAnyRole(u, {RoleAdmin, RoleEditor})

CanChangePostStatus(u, p, newStatus) ==
    CASE newStatus = "draft" -> CanEditPost(u, p)
      [] newStatus = "published" -> CanPublishPost(u, p)
      [] newStatus = "scheduled" -> CanSchedulePost(u, p)
      [] newStatus = "archived" -> CanArchivePost(u, p)
      [] OTHER -> FALSE

---------------------------------------------------------------------------
(* user and post: both gates asked about one transition *)

\* u.CanChangePostStatus(p, newStatus)
DoCanChangePostStatus ==
    \E u \in Actors, newStatus \in StatusValues :
        /\ call = NoCall
        /\ allowed' = CanChangePostStatus(u, post, newStatus)
        /\ call' = [op |-> "User.CanChangePostStatus", p |-> post, u |-> u,
                    from |-> post.Status, target |-> newStatus,
                    publishAt |-> 0, at |-> now]
        /\ UNCHANGED <<sub, post, now, ret, err>>

\* p.CanTransitionTo(newStatus, u) and u.CanChangePostStatus(p, newStatus) for
\* the same post, actor and target.
DoCanTransitionToAndCanChangePostStatus ==
    \E u \in Actors, newStatus \in StatusValues :
        /\ call = NoCall
        /\ err' = PostCanTransitionTo(post, newStatus, u)
        /\ allowed' = CanChangePostStatus(u, post, newStatus)
        /\ call' = [op |-> "Post.CanTransitionTo, User.CanChangePostStatus",
                    p |-> post, u |-> u,
                    from |-> post.Status, target |-> newStatus,
                    publishAt |-> 0, at |-> now]
        /\ UNCHANGED <<sub, post, now, ret>>

NextGate ==
    \/ Proceed
    \/ DoCanTransitionTo
    \/ DoCanChangePostStatus
    \/ DoCanTransitionToAndCanChangePostStatus

SpecGate == Init /\ [][NextGate]_vars

---------------------------------------------------------------------------
(* Properties *)

\* The transitions the specification lists, besides the self-transitions.
ListedTransitions ==
    {<<"draft", "published">>, <<"draft", "scheduled">>,
     <<"published", "draft">>, <<"published", "archived">>,
     <<"scheduled", "draft">>, <<"scheduled", "published">>,
     <<"archived", "published">>}

TablePermits(from, to) == from = to \/ <<from, to>> \in ListedTransitions

HoldsAdminOrEditor(u) == "admin" \in u.roles \/ "editor" \in u.roles

BothApprovalFieldsSet(p) == Len(p.ApprovedBy) = 1 /\ Len(p.ApprovedAt) = 1

\* C1: Status.CanTransitionTo(from, to) is true exactly when from = to or
\* (from, to) is one of the seven listed transitions, for the four statuses
\* and for a value outside them.
C1_TransitionTable ==
    call.op = "Status.CanTransitionTo" =>
        (allowed <=> TablePermits(call.from, call.target))

C1_Witness ==
    /\ call.op = "Status.CanTransitionTo"
    /\ call.from = StatusUnknown
    /\ call.target = StatusUnknown
    /\ allowed

\* C2: for a table-permitted transition to published, Post.CanTransitionTo and
\* Publish answer invalid when the post is not approved, whatever the roles;
\* otherwise forbidden when the actor holds neither Admin nor Editor;
\* otherwise no error.
C2_PublishGateOrder ==
    (/\ call.op \in {"Post.CanTransitionTo", "Post.Publish"}
     /\ call.target = "published"
     /\ TablePermits(call.from, "published"))
    => IF ~BothApprovalFieldsSet(call.p) THEN ErrorCode(err) = "invalid"
       ELSE IF ~HoldsAdminOrEditor(call.u) THEN ErrorCode(err) = "forbidden"
       ELSE err = NoError

C2_Witness ==
    /\ call.op = "Post.Publish"
    /\ call.from = "draft"
    /\ ~BothApprovalFieldsSet(call.p)
    /\ call.u.roles = {"admin"}
    /\ ErrorCode(err) = "invalid"

\* C3: Post.CanTransitionTo, Publish and Schedule reject every (current,
\* target) pair that is not in the transition table with code invalid, for
\* every actor and every approval state.
C3_TableCheckedFirst ==
    (/\ call.op \in {"Post.CanTransitionTo", "Post.Publish", "Post.Schedule"}
     /\ ~TablePermits(call.from, call.target))
    => ErrorCode(err) = "invalid"

C3_Witness ==
    /\ call.op = "Post.Schedule"
    /\ call.from = "published"
    /\ call.u.roles = {}
    /\ ErrorCode(err) = "invalid"

\* C4: for a table-permitted transition, Post.CanTransitionTo answers forbidden
\* when the actor holds neither Admin nor Editor and the target is scheduled,
\* or archived, or draft from published; a transition to draft from any other
\* status is permitted for every actor.
C4_RoleGate ==
    (/\ call.op = "Post.CanTransitionTo"
     /\ TablePermits(call.from, call.target))
    => /\ (/\ ~HoldsAdminOrEditor(call.u)
           /\ \/ call.target \in {"scheduled", "archived"}
              \/ call.target = "draft" /\ call.from = "published")
          => ErrorCode(err) = "forbidden"
       /\ (call.target = "draft" /\ call.from # "published") => err = NoError

C4_Witness ==
    /\ call.op = "Post.CanTransitionTo"
    /\ call.from = "scheduled"
    /\ call.target = "draft"
    /\ call.u.roles = {}
    /\ err = NoError

\* C5: Post.Approve succeeds exactly when the actor holds Admin or Editor and
\* either is not the post's owner or holds Admin; every other actor gets
\* forbidden; in every post status.
C5_ApproveGate ==
    call.op = "Post.Approve" =>
        IF /\ HoldsAdminOrEditor(call.u)
           /\ (call.u.id # call.p.Owner \/ "admin" \in call.u.roles)
        THEN err = NoError
        ELSE ErrorCode(err) = "forbidden"

C5_Witness ==
    /\ call.op = "Post.Approve"
    /\ call.u.id = call.p.Owner
    /\ call.u.roles = {"editor"}
    /\ call.from = "archived"
    /\ ErrorCode(err) = "forbidden"

\* C6: a successful Approve returns a post whose ApprovedBy is the actor's
\* identity, whose ApprovedAt and UpdatedAt are the clock's current time, and
\* which equals the input in every other field.
C6_ApproveEffect ==
    (call.op = "Post.Approve" /\ err = NoError) =>
        /\ ret.ApprovedBy = <<call.u.id>>
        /\ ret.ApprovedAt = <<call.at>>
        /\ ret.UpdatedAt = call.at
        /\ ret.Status = call.p.Status
        /\ ret.PublishedAt = call.p.PublishedAt
        /\ ret.PostID = call.p.PostID
        /\ ret.Owner = call.p.Owner
        /\ ret.Title = call.p.Title
        /\ ret.CreatedAt = call.p.CreatedAt

C6_Witness ==
    /\ call.op = "Post.Approve"
    /\ err = NoError
    /\ call.p.Status = "scheduled"
    /\ call.p.PublishedAt # NilPtr
    /\ call.p.UpdatedAt # call.at
    /\ ret.ApprovedBy # call.p.ApprovedBy

\* C7: Publish succeeds exactly when Post.CanTransitionTo(published, actor)
\* returns no error, and then returns a post with Status published and
\* PublishedAt and UpdatedAt equal to the clock's current time.
C7_PublishEffect ==
    call.op = "Post.Publish" =>
        /\ (err = NoError) <=> (PostCanTransitionTo(call.p, StatusPublished, call.u) = NoError)
        /\ err = NoError =>
            /\ ret.Status = "published"
            /\ ret.PublishedAt = <<call.at>>
            /\ ret.UpdatedAt = call.at

C7_Witness ==
    /\ call.op = "Post.Publish"
    /\ err = NoError
    /\ call.from = "draft"
    /\ call.u.roles = {"editor"}
    /\ call.u.id # call.p.Owner
    /\ ret.Status = "published"
    /\ call.at > 0

\* C8 as stated: Schedule with a publish time equal to or before the current
\* time fails with code invalid for every post and every actor.
C8_Original ==
    (call.op = "Post.Schedule" /\ call.publishAt <= call.at) =>
        ErrorCode(err) = "invalid"

\* C8, amended: Schedule with a publish time equal to or before the current
\* time always fails; the code is forbidden when the post is draft or
\* scheduled and the actor holds neither Admin nor Editor, and invalid in every
\* other case.
C8_PastScheduleFails ==
    (call.op = "Post.Schedule" /\ call.publishAt <= call.at) =>
        /\ err # NoError
        /\ IF call.from \in {"draft", "scheduled"} /\ ~HoldsAdminOrEditor(call.u)
           THEN ErrorCode(err) = "forbidden"
           ELSE ErrorCode(err) = "invalid"

C8_Witness ==
    /\ call.op = "Post.Schedule"
    /\ call.publishAt = call.at
    /\ call.from = "draft"
    /\ call.u.roles = {"admin"}
    /\ ErrorCode(err) = "invalid"

\* C9 as stated: Schedule with a publish time strictly after the current time
\* by an actor holding Admin or Editor succeeds, with Status scheduled and
\* PublishedAt the supplied time.
C9_Original ==
    (/\ call.op = "Post.Schedule"
     /\ call.publishAt > call.at
     /\ HoldsAdminOrEditor(call.u))
    => /\ err = NoError
       /\ ret.Status = "scheduled"
       /\ ret.PublishedAt = <<call.publishAt>>

\* C9, amended: on a post whose status is draft or scheduled, Schedule with a
\* publish time strictly after the current time by an actor holding Admin or
\* Editor succeeds, with Status scheduled and PublishedAt the supplied time;
\* approval is not required. From any other status it fails with code invalid.
C9_FutureSchedule ==
    (/\ call.op = "Post.Schedule"
     /\ call.publishAt > call.at
     /\ HoldsAdminOrEditor(call.u))
    => IF call.from \in {"draft", "scheduled"}
       THEN /\ err = NoError
            /\ ret.Status = "scheduled"
            /\ ret.PublishedAt = <<call.publishAt>>
       ELSE ErrorCode(err) = "invalid"

C9_Witness ==
    /\ call.op = "Post.Schedule"
    /\ call.from = "draft"
    /\ ~BothApprovalFieldsSet(call.p)
    /\ call.u.roles = {"editor"}
    /\ call.publishAt = call.at + 1
    /\ err = NoError
    /\ ret.Status = "scheduled"

\* C10: on every error of Approve, Publish or Schedule the returned Post equals
\* the input Post in every field.
C10_NoPartialMutation ==
    (/\ call.op \in {"Post.Approve", "Post.Publish", "Post.Schedule"}
     /\ err # NoError)
    => ret = call.p

C10_Witness ==
    /\ call.op = "Post.Schedule"
    /\ ErrorCode(err) = "invalid"
    /\ call.from = "draft"
    /\ call.p.PublishedAt = NilPtr
    /\ call.publishAt < call.at
    /\ ret = call.p

\* C11: every Post returned by NewPost, and every Post obtained from it by
\* Approve, Publish and Schedule calls, successful or failed, has ApprovedBy
\* and ApprovedAt both nil or both set, and IsApproved() is true exactly when
\* both are set.
C11_ApprovalFieldsJoint ==
    \A p \in {post, ret} :
        /\ (p.ApprovedBy = NilPtr) <=> (p.ApprovedAt = NilPtr)
        /\ IsApproved(p) <=> (Len(p.ApprovedBy) = 1 /\ Len(p.ApprovedAt) = 1)

C11_Witness ==
    /\ call.op = "Post.Schedule"
    /\ err # NoError
    /\ post.Status = "published"
    /\ Len(post.ApprovedBy) = 1
    /\ Len(post.ApprovedAt) = 1

C13_Original ==
    \A p \in {post, ret} :
        p.Status \in {"draft", "archived"} => p.PublishedAt = NilPtr

\* C14: IsReadyToPublish() is true exactly when Status is scheduled,
\* PublishedAt is set and PublishedAt is not after the current time (equal
\* counts as ready); false for every draft, published or archived post.
C14_ReadyToPublish ==
    call.op = "Post.IsReadyToPublish" =>
        (allowed <=> (/\ call.p.Status = "scheduled"
                      /\ Len(call.p.PublishedAt) = 1
                      /\ call.p.PublishedAt[1] <= call.at))

C14_Witness ==
    /\ call.op = "Post.IsReadyToPublish"
    /\ call.p.Status = "scheduled"
    /\ call.p.PublishedAt = <<call.at>>
    /\ call.at > 0
    /\ allowed

\* C15 as stated: for every post in status s and every actor a transition
\* whose target is s is permitted, and Publish on a published post, or
\* Schedule with the same publish time on a scheduled post, succeeds and
\* returns a post equal to its input.
C15_Original ==
    /\ (/\ call.op \in {"Post.CanTransitionTo", "Post.Publish", "Post.Schedule"}
        /\ call.target = call.from)
       => err = NoError
    /\ (/\ call.op = "Post.Publish"
        /\ call.from = "published")
       => (err = NoError /\ ret = call.p)
    /\ (/\ call.op = "Post.Schedule"
        /\ call.from = "scheduled"
        /\ call.p.PublishedAt = <<call.publishAt>>)
       => (err = NoError /\ ret = call.p)

\* C15, amended: Status.CanTransitionTo(s, s) is true for every s, and a
\* Post is never refused a self-transition by the table; it is still subject
\* to the gates of its target: to draft every actor passes, to scheduled or
\* archived the actor must hold Admin or Editor, to published the post must be
\* approved and the actor hold Admin or Editor. A permitted Publish on a
\* published post returns the input with PublishedAt and UpdatedAt restamped
\* by the clock; a Schedule with the same publish time on a scheduled post
\* needs that time to be still in the future and returns the input with
\* UpdatedAt restamped.
C15_SelfTransition ==
    /\ (call.op = "Status.CanTransitionTo" /\ call.from = call.target) => allowed
    /\ (/\ call.op \in {"Post.CanTransitionTo", "Post.Publish", "Post.Schedule"}
        /\ call.target = call.from)
       => LET gate ==
                  CASE call.target = "draft" -> TRUE
                    [] call.target \in {"scheduled", "archived"} ->
                         HoldsAdminOrEditor(call.u)
                    [] call.target = "published" ->
                         BothApprovalFieldsSet(call.p) /\ HoldsAdminOrEditor(call.u)
                    [] OTHER -> TRUE
              date == call.op = "Post.Schedule" => call.publishAt > call.at
          IN  /\ (err = NoError) <=> (gate /\ date)
              /\ (err # NoError /\ gate) => ErrorCode(err) = "invalid"
              /\ (err # NoError /\ ~gate) =>
                    ErrorCode(err) = IF /\ call.target = "published"
                                        /\ ~BothApprovalFieldsSet(call.p)
                                     THEN "invalid" ELSE "forbidden"
    /\ (/\ call.op = "Post.Publish"
        /\ call.from = "published"
        /\ err = NoError)
       => ret = [call.p EXCEPT !.PublishedAt = <<call.at>>, !.UpdatedAt = call.at]
    /\ (/\ call.op = "Post.Schedule"
        /\ call.from = "scheduled"
        /\ call.p.PublishedAt = <<call.publishAt>>
        /\ err = NoError)
       => /\ [ret EXCEPT !.UpdatedAt = call.p.UpdatedAt] = call.p
          /\ ret.UpdatedAt >= call.at

C15_Witness ==
    /\ call.op = "Post.Publish"
    /\ call.from = "published"
    /\ err = NoError
    /\ ret.Status = "published"
    /\ ret # call.p

\* The operations of the error chain e, outermost first.
InChain(e, operation) == \E i \in 1..Len(e) : e[i].Operation = operation

\* C16: Category.Validate, and with it NewCategory, rejects with code
\* invalid every category whose ParentID is set and equal to its own
\* CategoryID; a category NewCategory returns is never its own parent; and
\* with a nil ParentID no error ever comes from the hierarchy check.
C16_NoSelfParent ==
    /\ (/\ call.op = "Category.Validate"
        /\ call.cat.ParentID = Ptr(call.cat.CategoryID))
           => ErrorCode(err) = "invalid"
    /\ (/\ call.op = "NewCategory"
        /\ call.params.ParentID = Ptr(call.params.CategoryID))
           => (ErrorCode(err) = "invalid" /\ ret = ZeroCategory)
    /\ (call.op = "NewCategory" /\ err = NoError)
           => (/\ ret.CategoryID = call.params.CategoryID
               /\ ret.ParentID = call.params.ParentID
               /\ ret.ParentID # Ptr(ret.CategoryID))
    /\ (/\ call.op = "Category.Validate"
        /\ call.cat.ParentID = NilPtr)
           => ~InChain(err, "Category.validateBasicHierarchy")
    /\ (/\ call.op = "NewCategory"
        /\ call.params.ParentID = NilPtr)
           => ~InChain(err, "Category.validateBasicHierarchy")

\* An otherwise valid category that names itself as its parent is rejected
\* by the hierarchy check.
C16_Witness ==
    /\ call.op = "NewCategory"
    /\ call.params.CategoryID = "c1"
    /\ call.params.ParentID = Ptr("c1")
    /\ call.params.Name = "Sports"
    /\ call.params.CreatedBy = "u1"
    /\ ErrorCode(err) = "invalid"
    /\ InChain(err, "Category.validateBasicHierarchy")

\* C17: for every CategoryPath of length n, the empty path included,
\* Depth() is n - 1 and IsValidDepth() is true exactly when n <= 3.
C17_PathDepth ==
    /\ call.op = "CategoryPath.Depth" => ret.depth = Len(call.path) - 1
    /\ call.op = "CategoryPath.IsValidDepth" => (allowed <=> Len(call.path) <= 3)

\* A path of four categories is too deep.
C17_Witness ==
    /\ call.op = "CategoryPath.IsValidDepth"
    /\ Len(call.path) = 4
    /\ ~allowed

\* The slugs of a path, root first.
SlugsOf(cp) == [i \in 1..Len(cp) |-> cp[i].Slug]

\* C18: BuildURL(id) calls the repository's BuildPath(id); on success it
\* returns the slugs of the path joined by "/" from root to leaf, with no
\* slash at either end and the empty string for the empty path; on failure
\* it returns the empty string and the repository's error itself, code
\* included.
C18_BuildURL ==
    call.op = "PathService.BuildURL" =>
        /\ ret.calls = <<[method |-> "BuildPath", id |-> call.id]>>
        /\ call.repo.err = NoError =>
              /\ err = NoError
              /\ Len(call.repo.path) = 0 => ret.url = <<>>
              /\ Len(call.repo.path) > 0 =>
                    /\ Split(ret.url, "/") = SlugsOf(call.repo.path)
                    /\ ret.url[1] # "/"
                    /\ ret.url[Len(ret.url)] # "/"
        /\ call.repo.err # NoError =>
              /\ ret.url = <<>>
              /\ err = call.repo.err
              /\ ErrorCode(err) = ErrorCode(call.repo.err)

\* A path of three distinct categories is rendered root first.
C18_Witness ==
    /\ call.op = "PathService.BuildURL"
    /\ err = NoError
    /\ ret.url = <<"a", "1", "/", "s", "p", "o", "r", "t", "s", "/", "c">>

\* C19: for a path of length n returned by BuildPath(id), GetBreadcrumbs(id)
\* returns n breadcrumbs in path order, the i-th (from 0) with the i-th
\* category, Level = i and IsLast = (i = n - 1), so that for n >= 1 only the
\* last has IsLast; on failure it returns no breadcrumbs and the
\* repository's error itself.
C19_Breadcrumbs ==
    call.op = "PathService.GetBreadcrumbs" =>
        LET n == Len(call.repo.path)
            bc == ret.breadcrumbs IN
        /\ ret.calls = <<[method |-> "BuildPath", id |-> call.id]>>
        /\ call.repo.err = NoError =>
              /\ err = NoError
              /\ Len(bc) = n
              /\ \A i \in 0..(n - 1) :
                    /\ bc[i + 1].Category = call.repo.path[i + 1]
                    /\ bc[i + 1].Level = i
                    /\ bc[i + 1].IsLast = (i = n - 1)
              /\ n >= 1 => {k \in 1..n : bc[k].IsLast} = {n}
        /\ call.repo.err # NoError =>
              /\ bc = <<>>
              /\ err = call.repo.err

\* Three breadcrumbs, levels 0 to 2, the third one last.
C19_Witness ==
    /\ call.op = "PathService.GetBreadcrumbs"
    /\ err = NoError
    /\ Len(ret.breadcrumbs) = 3
    /\ ret.breadcrumbs[1].Level = 0 /\ ~ret.breadcrumbs[1].IsLast
    /\ ret.breadcrumbs[3].Level = 2 /\ ret.breadcrumbs[3].IsLast
    /\ ret.breadcrumbs[1].Category # ret.breadcrumbs[3].Category

\* A segment has malformed percent-encoding when some "%" is not followed by
\* two hexadecimal digits.
PercentMalformed(seg) ==
    \E i \in 1..Len(seg) :
        /\ seg[i] = "%"
        /\ \/ i + 2 > Len(seg)
           \/ ~IsHex(seg[i + 1])
           \/ ~IsHex(seg[i + 2])

\* Percent-decoding: every "%XY" becomes the byte 0xXY, every other
\* character stays as it is.
RECURSIVE PercentDecoded(_)
PercentDecoded(seg) ==
    IF seg = <<>> THEN <<>>
    ELSE IF Head(seg) = "%"
    THEN <<CharOf(16 * Unhex(seg[2]) + Unhex(seg[3]))>>
             \o PercentDecoded(SubSeq(seg, 4, Len(seg)))
    ELSE <<Head(seg)>> \o PercentDecoded(Tail(seg))

\* C20: ParseURL(path) trims the slashes at both ends; with an empty
\* remainder or a segment of malformed percent-encoding it returns an error
\* and never calls the repository; otherwise it calls FindByPath exactly
\* once, with the segments of the remainder split on "/" and each
\* percent-decoded, in order, and returns FindByPath's category and error
\* as they are.
C20_Original ==
    call.op = "PathService.ParseURL" =>
        LET rest == Trim(call.urlPath, "/")
            segs == Split(rest, "/") IN
        IF rest = <<>> \/ \E i \in 1..Len(segs) : PercentMalformed(segs[i])
        THEN err # NoError /\ ret.calls = <<>>
        ELSE /\ ret.calls =
                   <<[method |-> "FindByPath",
                      segments |-> [i \in 1..Len(segs) |-> PercentDecoded(segs[i])]]>>
             /\ ret.category = call.repo.category
             /\ err = call.repo.err

\* The positions of the chain e whose error carries a code, and those whose
\* error carries a message.
Coded(e) == {i \in 1..Len(e) : e[i].Code # ""}

Worded(e) == {i \in 1..Len(e) : e[i].Message # <<>>}

First(S) == CHOOSE i \in S : \A j \in S : i <= j

\* C21: ErrorCode is the empty string for a nil error, else the Code of the
\* first error of the cause chain that has one, else internal; ErrorMessage
\* resolves the message in the same way, with the generic support message
\* as the default; so an error wrapped in an Error that only adds an
\* Operation resolves to the same code and message as before.
C21_ChainResolution ==
    /\ call.op = "ErrorCode" =>
          ret.code = (IF call.chain = <<>> THEN ""
                      ELSE IF Coded(call.chain) # {}
                      THEN call.chain[First(Coded(call.chain))].Code
                      ELSE "internal")
    /\ call.op = "ErrorMessage" =>
          ret.message = (IF call.chain = <<>> THEN <<>>
                         ELSE IF Worded(call.chain) # {}
                         THEN call.chain[First(Worded(call.chain))].Message
                         ELSE MInternal)
    /\ call.op = "Wrap" =>
          /\ ret.code = ErrorCode(call.chain)
          /\ ret.message = ErrorMessage(call.chain)
          /\ Coded(call.chain) # {} =>
                ret.code = call.chain[First(Coded(call.chain))].Code
          /\ Worded(call.chain) # {} =>
                ret.message = call.chain[First(Worded(call.chain))].Message

\* An error without a message of its own resolves to the message of its
\* cause, two levels down.
C21_Witness ==
    /\ call.op = "ErrorMessage"
    /\ Len(call.chain) = 3
    /\ call.chain[1].Message = <<>>
    /\ call.chain[2].Message = <<>>
    /\ call.chain[3].Message = <<"second message">>
    /\ ret.message = <<"second message">>

\* C22: slug generation is idempotent, generateSlug of a generated slug
\* succeeds and returns that slug, and deterministic, its result being a
\* function of its input alone.
C22_SlugIdempotent ==
    /\ call.op = "generateSlug twice" =>
          /\ err = NoError
          /\ ret.again = ret.slug
    /\ call.op = "generateSlug" =>
          /\ ret.slug = generateSlug(call.input).slug
          /\ err = generateSlug(call.input).err

\* An input that generation changes, truncation included, is a fixed
\* point after one generation.
C22_Witness ==
    /\ call.op = "generateSlug twice"
    /\ Len(call.input) = MaxSlugLength + 1
    /\ call.input[MaxSlugLength] = " "
    /\ call.input[MaxSlugLength + 1] = "B"
    /\ Len(ret.slug) = MaxSlugLength - 1
    /\ ret.again = ret.slug
    /\ err = NoError

\* Whether the rune r leaves a letter or digit in a slug.
YieldsAlnum(r) ==
    \E x \in SlugAlnum :
        \E i \in 1..Len(RemoveAccents(ToLower(transliterate(<<r>>)))) :
            RemoveAccents(ToLower(transliterate(<<r>>)))[i] = x

\* C23: on every input NewSlug and generateSlug either fail with code
\* invalid, which they do exactly when no rune of the input leaves a letter
\* or digit, or return a string of the characters [a-z0-9-] that is not
\* empty, has no hyphen at either end and no two hyphens in a row, and is
\* at most 110 long, also when the input was long enough to be truncated.
C23_SlugFormat ==
    call.op \in {"generateSlug", "NewSlug"} =>
        /\ (err # NoError) <=> (\A i \in 1..Len(call.input) : ~YieldsAlnum(call.input[i]))
        /\ err # NoError => (ErrorCode(err) = "invalid" /\ ret.slug = <<>>)
        /\ err = NoError =>
              /\ Len(ret.slug) >= 1
              /\ Len(ret.slug) <= 110
              /\ \A i \in 1..Len(ret.slug) : ret.slug[i] \in SlugAlnum \cup {"-"}
              /\ ret.slug[1] # "-"
              /\ ret.slug[Len(ret.slug)] # "-"
              /\ \A i \in 1..(Len(ret.slug) - 1) :
                    ~(ret.slug[i] = "-" /\ ret.slug[i + 1] = "-")

\* A slug cut at the maximal length, where the cut left a hyphen at the end.
C23_Witness ==
    /\ call.op = "NewSlug"
    /\ Len(call.input) = 111
    /\ call.input[110] = "-"
    /\ call.input[111] = "1"
    /\ err = NoError
    /\ Len(ret.slug) = 109

\* C24: Unsubscribe succeeds only on an active subscription, which becomes
\* unsubscribed, not active, with UnsubscribedAt the current time, and fails
\* with conflict otherwise; Resubscribe succeeds only on an unsubscribed
\* subscription, which becomes active with UnsubscribedAt nil, and fails
\* with conflict on an active one and with invalid on a bounced or
\* complained one; a failed call returns its receiver.
C24_UnsubscribeResubscribe ==
    /\ call.op = "Subscription.Unsubscribe" =>
          IF call.s.Status = "active"
          THEN /\ err = NoError
               /\ ret.Status = "unsubscribed"
               /\ ret.IsActive = FALSE
               /\ ret.UnsubscribedAt = Ptr(call.at)
          ELSE /\ ErrorCode(err) = "conflict"
               /\ ret = call.s
    /\ call.op = "Subscription.Resubscribe" =>
          IF call.s.Status = "unsubscribed"
          THEN /\ err = NoError
               /\ ret.Status = "active"
               /\ ret.IsActive = TRUE
               /\ ret.UnsubscribedAt = NilPtr
          ELSE /\ err # NoError
               /\ ret = call.s
               /\ call.s.Status = "active" => ErrorCode(err) = "conflict"
               /\ call.s.Status \in {"bounced", "complained"} =>
                     ErrorCode(err) = "invalid"

\* A bounced subscription cannot be resubscribed and comes back unchanged.
C24_Witness ==
    /\ call.op = "Subscription.Resubscribe"
    /\ call.s.Status = "bounced"
    /\ call.s.UnsubscribedAt # NilPtr
    /\ ErrorCode(err) = "invalid"
    /\ sub = call.s

\* C29: a subscription that NewSubscription created, after any calls of
\* Unsubscribe, Resubscribe, MarkAsBounced and MarkAsComplained, has IsActive
\* exactly when its Status is active, has UnsubscribedAt set whenever its
\* Status is unsubscribed, and answers IsSubscribed and CanReceiveEmails
\* with true exactly when its Status is active.
C29_ActiveFlagAgrees ==
    /\ HasSubscription =>
          /\ sub.IsActive <=> sub.Status = "active"
          /\ sub.Status = "unsubscribed" => sub.UnsubscribedAt # NilPtr
          /\ IsSubscribed(sub) <=> sub.Status = "active"
          /\ CanReceiveEmails(sub) <=> sub.Status = "active"
    /\ call.op \in {"Subscription.IsSubscribed", "Subscription.CanReceiveEmails"} =>
          (allowed <=> call.s.Status = "active")

\* A subscription that was unsubscribed, resubscribed and then bounced.
C29_Witness ==
    /\ call.op = "Subscription.MarkAsBounced"
    /\ call.s.Status = "active"
    /\ call.s.UpdatedAt > call.s.SubscribedAt
    /\ sub.Status = "bounced"
    /\ ~sub.IsActive

\* C30: MarkAsBounced and MarkAsComplained succeed from every status; and a
\* subscription whose Status is bounced or complained keeps a Status of
\* these two through every call, and cannot receive emails.
C30_BouncedIsFinal ==
    /\ [](call.op = "Subscription.MarkAsBounced" =>
            (err = NoError /\ sub.Status = "bounced"))
    /\ [](call.op = "Subscription.MarkAsComplained" =>
            (err = NoError /\ sub.Status = "complained"))
    /\ [](sub.Status \in {"bounced", "complained"} => ~CanReceiveEmails(sub))
    /\ [][sub.Status \in {"bounced", "complained"} =>
            sub'.Status \in {"bounced", "complained"}]_vars

\* A complained subscription that was asked to resubscribe, in vain.
C30_Witness ==
    /\ call.op = "Subscription.Resubscribe"
    /\ call.s.Status = "complained"
    /\ err # NoError
    /\ sub.Status = "complained"

\* C25: a post that NewPost created as a draft is unapproved, and through
\* every sequence of Approve, Schedule and Publish calls it is published
\* only while approved, approval coming from a successful Approve alone; a
\* call by an actor who is neither Admin nor Editor leaves a draft,
\* unapproved post a draft, unapproved post.
C25_PublishedNeedsApprove ==
    /\ [](post.Status = "published" => IsApproved(post))
    /\ [][(~IsApproved(post) /\ IsApproved(post')) =>
            (call'.op = "Post.Approve" /\ err' = NoError)]_vars
    /\ [][(/\ post.Status = "draft"
           /\ ~IsApproved(post)
           /\ ~HoldsAdminOrEditor(call'.u)) =>
            (post'.Status = "draft" /\ ~IsApproved(post'))]_vars

\* A draft that was approved, scheduled and then published.
C25_Witness ==
    /\ call.op = "Post.Publish"
    /\ err = NoError
    /\ call.p.Status = "scheduled"
    /\ post.Status = "published"
    /\ IsApproved(post)

\* C26: approval is never revoked: Publish and Schedule leave ApprovedBy and
\* ApprovedAt as they are, a successful Approve writes the approver and the
\* current time into them, and so a post once approved stays approved
\* through every call, whatever its status becomes.
C26_ApprovalKept ==
    /\ [][IsApproved(post) => IsApproved(post')]_vars
    /\ [][call'.op \in {"Post.Publish", "Post.Schedule"} =>
            (/\ post'.ApprovedBy = post.ApprovedBy
             /\ post'.ApprovedAt = post.ApprovedAt)]_vars
    /\ [][(call = NoCall /\ call'.op = "Post.Approve" /\ err' = NoError) =>
            (/\ post'.ApprovedBy = Ptr(call'.u.id)
             /\ post'.ApprovedAt = Ptr(now))]_vars

\* An approved draft was scheduled and is still approved.
C26_Witness ==
    /\ call.op = "Post.Schedule"
    /\ err = NoError
    /\ call.p.Status = "draft"
    /\ IsApproved(call.p)
    /\ post.Status = "scheduled"
    /\ IsApproved(post)

\* The error comes from the workflow check of Validate and resolves to code
\* invalid.
FailsWorkflowCheck(e) ==
    /\ Len(e) >= 2
    /\ e[1].Operation = "Post.Validate"
    /\ e[2].Operation = "Post.validateWorkflowFields"
    /\ ErrorCode(e) = "invalid"

\* Validate and IsReadyToPublish were evaluated at one clock reading on a
\* scheduled post whose PublishedAt is set.
ScheduledChecked ==
    /\ call.op = "Post.Validate, Post.IsReadyToPublish"
    /\ call.p.Status = "scheduled"
    /\ Len(call.p.PublishedAt) = 1

\* C27 as stated: for a post with Status scheduled and PublishedAt set,
\* evaluated at one clock reading, IsReadyToPublish() is true exactly when
\* Validate() fails its workflow check with code invalid.
C27_Original ==
    ScheduledChecked => (allowed <=> FailsWorkflowCheck(err))

\* C27: for a post with Status scheduled and PublishedAt set, evaluated at one
\* clock reading, a ready post never validates: IsReadyToPublish() true means
\* Validate() fails with code invalid, in its workflow check whenever the
\* fields checked before it are valid. Conversely a failure of the workflow
\* check means the post is ready only when ApprovedBy is nil or a valid ID; an
\* invalid ApprovedBy fails the workflow check of a post that is not ready.
C27_ReadyNeverValid ==
    ScheduledChecked =>
        /\ allowed => ErrorCode(err) = "invalid"
        /\ (allowed /\ call.p.PostID # "" /\ call.p.Owner # ""
                    /\ call.p.Title = TitleGood)
           => FailsWorkflowCheck(err)
        /\ (FailsWorkflowCheck(err) /\ call.p.ApprovedBy \in {NilPtr, Ptr("u2")})
           => allowed
        /\ (call.p.ApprovedBy = Ptr("") /\ call.p.PostID # "")
           => FailsWorkflowCheck(err)

\* A scheduled post whose date has come is ready and fails the workflow check.
C27_Witness ==
    /\ ScheduledChecked
    /\ call.p.PublishedAt = <<call.checkedAt>>
    /\ call.checkedAt > 0
    /\ call.p.ApprovedBy = NilPtr
    /\ allowed
    /\ FailsWorkflowCheck(err)

\* A scheduled post with a date still ahead and an empty approver ID is not
\* ready and fails the workflow check.
C27_NotReadyYetInvalid ==
    /\ ScheduledChecked
    /\ call.p.PublishedAt[1] > call.checkedAt
    /\ call.p.ApprovedBy = Ptr("")
    /\ call.p.PostID # ""
    /\ ~allowed
    /\ FailsWorkflowCheck(err)

\* Both gates were asked about one of the targets published, scheduled and
\* archived.
BothGatesAsked ==
    /\ call.op = "Post.CanTransitionTo, User.CanChangePostStatus"
    /\ call.target \in {"published", "scheduled", "archived"}

\* The actor of the call owns the post and holds the role Author only.
AuthorOnlyOwner ==
    /\ call.u.roles = {"author"}
    /\ call.u.id = call.p.Owner

\* C28 as stated: for the targets published, scheduled and archived, whenever
\* p.CanTransitionTo(s, u) returns no error u.CanChangePostStatus(p, s) is
\* true; an owner whose only role is Author is allowed by CanPublishPost and
\* CanSchedulePost and always rejected by CanTransitionTo with forbidden.
C28_Original ==
    BothGatesAsked =>
        /\ err = NoError => allowed
        /\ (AuthorOnlyOwner /\ call.target \in {"published", "scheduled"})
           => (allowed /\ ErrorCode(err) = "forbidden")

\* C28: for the targets published, scheduled and archived, whenever
\* p.CanTransitionTo(s, u) returns no error u.CanChangePostStatus(p, s) is
\* true. The converse fails for an owner whose only role is Author: for the
\* targets published and scheduled the user-side check allows them and
\* CanTransitionTo always rejects them, with forbidden when the transition is
\* in the table and, for published, the post is approved, with invalid
\* otherwise.
C28_PostGateStricter ==
    BothGatesAsked =>
        /\ err = NoError => allowed
        /\ (AuthorOnlyOwner /\ call.target \in {"published", "scheduled"})
           => /\ allowed
              /\ err # NoError
              /\ ErrorCode(err) \in {"forbidden", "invalid"}
              /\ ErrorCode(err) = "forbidden" <=>
                    /\ call.target \in
                          CASE call.from = "draft" -> {"published", "scheduled"}
                            [] call.from = "published" -> {"draft", "archived", "published"}
                            [] call.from = "scheduled" -> {"draft", "published", "scheduled"}
                            [] call.from = "archived" -> {"published", "archived"}
                    /\ call.target = "published" =>
                          (call.p.ApprovedBy # NilPtr /\ call.p.ApprovedAt # NilPtr)

\* An Editor may publish an approved draft by both gates.
C28_Witness ==
    /\ BothGatesAsked
    /\ call.target = "published"
    /\ call.from = "draft"
    /\ call.u.roles = {"editor"}
    /\ err = NoError
    /\ allowed

\* An owner holding Author only is allowed by the user-side check and rejected
\* by the post with forbidden.
C28_AuthorOwnerForbidden ==
    /\ BothGatesAsked
    /\ AuthorOnlyOwner
    /\ call.target = "scheduled"
    /\ call.from = "draft"
    /\ allowed
    /\ ErrorCode(err) = "forbidden"

\* An owner holding Author only is allowed by the user-side check and rejected
\* by the post with invalid, the draft being unapproved.
C28_AuthorOwnerInvalid ==
    /\ BothGatesAsked
    /\ AuthorOnlyOwner
    /\ call.target = "published"
    /\ call.from = "draft"
    /\ call.p.ApprovedBy = NilPtr
    /\ allowed
    /\ ErrorCode(err) = "invalid"

====
